---- MODULE Spec2Model ----
(***************************************************************************)
(* A model of the JUnit 5 reporter of tdd-guard: the execution listener,   *)
(* the result collector, the source directory resolver and the JSON writer.*)
(*                                                                         *)
(* Java strings are sequences of one-character strings.  A nullable value  *)
(* is None (null) or Some(v).                                              *)
(***************************************************************************)
EXTENDS Integers, Sequences, FiniteSets, TLC

VARIABLES
    \* ---- SourceDirectoryResolver and its caller classNameToFilePath
    sysProps,       \* the system-property provider: property name -> nullable string
    envVars,        \* the environment provider: variable name -> nullable string
    lastKind,       \* "none", or the kind of class ("test" / "main") last resolved
    resolved,       \* what resolveTestSourceDirs / resolveMainSourceDirs returned
    candidates,     \* the directory list classNameToFilePath then searches
    \* ---- the clock and the file system under the project root
    now,            \* System.currentTimeMillis() / Instant.now()
    fs,             \* path -> entry (absent, a directory, or a file and its content)
    \* ---- TestJsonWriter.write, step by step
    wPc,            \* where the call is
    wJson,          \* the TestJson it built
    wFlushed,       \* how many tokens of the document have reached the temporary file
    prevOut,        \* the entry at the output path when the call began
    \* ---- TestResultCollector
    srcFiles,           \* the source files that exist under the project root
    tests,              \* CopyOnWriteArrayList<TestCase>
    failures,           \* CopyOnWriteArrayList<TestFailure>
    testStartTimes,     \* ConcurrentHashMap: unique id -> start time
    testPlanStartTime,
    \* ---- the engine's worker threads calling the collector
    tpc,            \* thread -> where its call is
    tcur,           \* thread -> the locals of its call
    picked,         \* identifiers some thread has begun to report
    returned,       \* identifiers whose finish or skip call has returned
    \* ---- TddGuardListener and its surroundings
    envEnabled,     \* the value of TDDGUARD_ENABLED now: nullable string
    enabled,        \* the listener's final field
    collector,      \* the listener's field: NullCollector or ACollector
    ctorEnv,        \* the value the provider returned in the constructor
    ctorMarker,     \* whether the marker directory existed in the constructor
    lastCall,       \* the lifecycle callback the engine delivered last
    lastOutcome,    \* how that callback ended: "returned" or "thrown"
    \* ---- one call of a function of the reporter
    input,          \* the arguments of the call, None before it
    output          \* what the call returned or that it raised, None before it

resVars == <<sysProps, envVars, lastKind, resolved, candidates>>
wrVars == <<wPc, wJson, wFlushed, prevOut>>
colVars == <<tests, failures, testStartTimes, testPlanStartTime>>
thrVars == <<tpc, tcur, picked, returned>>
lsnVars == <<envEnabled, enabled, collector, ctorEnv, ctorMarker, lastCall, lastOutcome>>
fnVars == <<input, output>>

vars == <<resVars, now, fs, wrVars, srcFiles, colVars, thrVars, lsnVars, fnVars>>

\* What the actions of one component leave alone.
notResolver == <<now, fs, wrVars, srcFiles, colVars, thrVars, lsnVars, fnVars>>
notWriter == <<resVars, srcFiles, colVars, thrVars, lsnVars, fnVars>>
notCollector == <<fs, wrVars, lsnVars, fnVars>>

(***************************************************************************)
(* Bounds of the model.                                                    *)
(***************************************************************************)
MaxLen == 3         \* longest configuration value, in characters
MaxTests == 2       \* most outcomes in one list
MaxFailures == 1    \* most failures handed to the writer in one call
MaxClock == 1       \* the clock stops advancing here
ChunkTokens == 20   \* tokens the buffered writer flushes at a time
NumTests == 2       \* test identifiers the engine reports (besides one container)
MaxHistory == 3     \* longest build-time history
MaxEntries == 2     \* most entries a walk of the project tree yields
MaxMocks == 2       \* most mock declarations in one test file
MaxCalls == 2       \* most constructor invocations in one test file

(***************************************************************************)
(* Nullable values and strings.                                            *)
(***************************************************************************)
None == <<>>
Some(v) == <<v>>

\* The listener's collector field: null, or the collector of the current run.
NullCollector == "null"
ACollector == "collector"

\* No listener takes part.
NoListener ==
    /\ envEnabled = None
    /\ enabled = FALSE
    /\ collector = NullCollector
    /\ ctorEnv = None
    /\ ctorMarker = FALSE
    /\ lastCall = "none"
    /\ lastOutcome = "returned"

\* No single function call is looked at.
NoFunction ==
    /\ input = None
    /\ output = None

\* The characters configuration values are made of.
DirChars == {"a", "b", " ", ","}

\* The least and the greatest element of a non-empty set of integers.
Least(S) == CHOOSE i \in S : \A j \in S : i <= j
Greatest(S) == CHOOSE i \in S : \A j \in S : j <= i

RECURSIVE StringsUpTo(_, _)
StringsUpTo(chars, n) ==
    IF n = 0 THEN {<<>>}
    ELSE LET shorter == StringsUpTo(chars, n - 1)
         IN  shorter \cup {Append(s, c) : s \in shorter, c \in chars}

\* String.trim(): strips leading and trailing characters <= U+0020.
IsTrimmable(c) == c = " "

RECURSIVE TrimLeft(_)
TrimLeft(s) ==
    IF s # <<>> /\ IsTrimmable(Head(s)) THEN TrimLeft(Tail(s)) ELSE s

RECURSIVE TrimRight(_)
TrimRight(s) ==
    IF s # <<>> /\ IsTrimmable(s[Len(s)])
    THEN TrimRight(SubSeq(s, 1, Len(s) - 1))
    ELSE s

\* The mutant of Trim that strips the leading characters only.
TrimLeadingOnly(s) == TrimLeft(s)

Trim(s) == TrimRight(TrimLeft(s))

\* Every piece between separators, empty pieces kept.
RECURSIVE SplitAll(_, _, _)
SplitAll(s, sep, cur) ==
    IF s = <<>> THEN <<cur>>
    ELSE IF Head(s) = sep THEN <<cur>> \o SplitAll(Tail(s), sep, <<>>)
    ELSE SplitAll(Tail(s), sep, Append(cur, Head(s)))

RECURSIVE DropTrailingEmpty(_)
DropTrailingEmpty(parts) ==
    IF parts # <<>> /\ parts[Len(parts)] = <<>>
    THEN DropTrailingEmpty(SubSeq(parts, 1, Len(parts) - 1))
    ELSE parts

\* String.split(regex) with limit 0: when the separator does not occur the
\* result is the string itself, otherwise trailing empty pieces are removed.
JavaSplit(s, sep) ==
    IF \A i \in 1..Len(s) : s[i] # sep THEN <<s>>
    ELSE DropTrailingEmpty(SplitAll(s, sep, <<>>))

RECURSIVE MapTrim(_)
MapTrim(parts) ==
    IF parts = <<>> THEN <<>> ELSE <<Trim(Head(parts))>> \o MapTrim(Tail(parts))

RECURSIVE FilterNonEmpty(_)
FilterNonEmpty(parts) ==
    IF parts = <<>> THEN <<>>
    ELSE IF Head(parts) = <<>> THEN FilterNonEmpty(Tail(parts))
    ELSE <<Head(parts)>> \o FilterNonEmpty(Tail(parts))

(***************************************************************************)
(* SourceDirectoryResolver.                                                *)
(***************************************************************************)
TestSysProp == "tddguard.testSourceDirs"
MainSysProp == "tddguard.mainSourceDirs"
TestEnvVar == "TDDGUARD_TEST_SOURCE_DIRS"
MainEnvVar == "TDDGUARD_MAIN_SOURCE_DIRS"

SysPropNames == {TestSysProp, MainSysProp}
EnvVarNames == {TestEnvVar, MainEnvVar}

\* dirs == null || dirs.trim().isEmpty()
NullOrBlank(v) == v = None \/ Trim(v[1]) = <<>>

\* The mutant of resolveDirectories that consults the environment first.
resolveDirectoriesEnvFirst(sysPropName, envVarName) ==
    LET first == envVars[envVarName]
        dirs  == IF NullOrBlank(first) THEN sysProps[sysPropName] ELSE first
    IN  IF NullOrBlank(dirs) THEN <<>>
        ELSE FilterNonEmpty(MapTrim(JavaSplit(dirs[1], ",")))

resolveDirectories(sysPropName, envVarName) ==
    LET first == sysProps[sysPropName]
        dirs  == IF NullOrBlank(first) THEN envVars[envVarName] ELSE first
    IN  IF NullOrBlank(dirs) THEN <<>>
        ELSE FilterNonEmpty(MapTrim(JavaSplit(dirs[1], ",")))

resolveTestSourceDirs == resolveDirectories(TestSysProp, TestEnvVar)

resolveMainSourceDirs == resolveDirectories(MainSysProp, MainEnvVar)

\* The built-in defaults of classNameToFilePath ("t" stands for src/test/java,
\* "k" for src/test/kotlin, "m" for src/main/java, "n" for src/main/kotlin).
DefaultTestDirs == << <<"t">>, <<"k">> >>
DefaultMainDirs == << <<"m">>, <<"n">> >>

\* classNameToFilePath, the choice of the directories to search.
CandidateDirs(isTestClass) ==
    LET directories == IF isTestClass THEN resolveTestSourceDirs
                       ELSE resolveMainSourceDirs
        defaultDirectories == IF isTestClass THEN DefaultTestDirs
                              ELSE DefaultMainDirs
    IN  IF directories = <<>> THEN defaultDirectories ELSE directories

ConfigValues == {None} \cup {Some(s) : s \in StringsUpTo(DirChars, MaxLen)}

ResInit ==
    /\ \E kind \in {"test", "main"}, s \in ConfigValues, e \in ConfigValues :
         /\ sysProps = [n \in SysPropNames |->
                          IF n = (IF kind = "test" THEN TestSysProp ELSE MainSysProp)
                          THEN s ELSE None]
         /\ envVars = [n \in EnvVarNames |->
                          IF n = (IF kind = "test" THEN TestEnvVar ELSE MainEnvVar)
                          THEN e ELSE None]
    /\ lastKind = "none"
    /\ resolved = <<>>
    /\ candidates = <<>>
    /\ now = 0
    /\ fs = [p \in {} |-> 0]
    /\ wPc = "idle" /\ wJson = 0 /\ wFlushed = 0 /\ prevOut = 0
    /\ srcFiles = {}
    /\ tests = <<>> /\ failures = <<>> /\ testStartTimes = <<>> /\ testPlanStartTime = 0
    /\ tpc = <<>> /\ tcur = <<>> /\ picked = {} /\ returned = {}
    /\ NoListener
    /\ NoFunction

\* classNameToFilePath for a class whose name ends in Test / Tests.
ResolveForTestClass ==
    /\ lastKind = "none"
    /\ lastKind' = "test"
    /\ resolved' = resolveTestSourceDirs
    /\ candidates' = CandidateDirs(TRUE)
    /\ UNCHANGED <<sysProps, envVars, notResolver>>

\* classNameToFilePath for any other class.
ResolveForMainClass ==
    /\ lastKind = "none"
    /\ lastKind' = "main"
    /\ resolved' = resolveMainSourceDirs
    /\ candidates' = CandidateDirs(FALSE)
    /\ UNCHANGED <<sysProps, envVars, notResolver>>

ResNext ==
    \/ ResolveForTestClass
    \/ ResolveForMainClass

SpecResolver == ResInit /\ [][ResNext]_vars

(***************************************************************************)
(* The model classes: TestCase, TestFailure, TestSummary, TestJson.        *)
(***************************************************************************)
Passed == <<"p", "a", "s", "s", "e", "d">>
Failed == <<"f", "a", "i", "l", "e", "d">>
Skipped == <<"s", "k", "i", "p", "p", "e", "d">>
Unknown == <<"u", "n", "k", "n", "o", "w", "n">>
Junit5 == <<"j", "u", "n", "i", "t", "5">>

Statuses == {Passed, Failed, Skipped}

TestCase(name, file, status, duration, displayName) ==
    [name |-> name, file |-> file, status |-> status, duration |-> duration,
     displayName |-> displayName]

TestFailure(name, file, message, stack) ==
    [name |-> name, file |-> file, message |-> message, stack |-> stack]

TestSummary(total, passed, failed, skipped) ==
    [total |-> total, passed |-> passed, failed |-> failed, skipped |-> skipped]

\* tests.stream().filter(t -> status.equals(t.status)).count()
RECURSIVE CountStatus(_, _)
CountStatus(list, status) ==
    IF list = <<>> THEN 0
    ELSE (IF Head(list).status = status THEN 1 ELSE 0) + CountStatus(Tail(list), status)

\* The mutant of calculateSummary that counts every non-passed test as failed.
calculateSummaryNotPassed(list) ==
    TestSummary(Len(list),
                CountStatus(list, Passed),
                Len(list) - CountStatus(list, Passed),
                CountStatus(list, Skipped))

calculateSummary(list) ==
    TestSummary(Len(list),
                CountStatus(list, Passed),
                CountStatus(list, Failed),
                CountStatus(list, Skipped))

\* new TestJson() followed by the assignments of TestJsonWriter.write.
TestJson(timestamp, duration, testList, failureList, educational) ==
    [framework |-> Junit5, timestamp |-> timestamp, duration |-> duration,
     summary |-> calculateSummary(testList), tests |-> testList, failures |-> failureList,
     educational |-> educational]

NoJson == [framework |-> <<>>, timestamp |-> 0, duration |-> 0,
           summary |-> TestSummary(0, 0, 0, 0), tests |-> <<>>, failures |-> <<>>,
           educational |-> <<>>]

(***************************************************************************)
(* Gson: a document is the sequence of its tokens.  Commas, colons and     *)
(* white space are left out; the instant of the timestamp is a number.     *)
(***************************************************************************)
Punct(p) == [k |-> "punct", key |-> p, s |-> <<>>, n |-> 0]
Key(name) == [k |-> "key", key |-> name, s |-> <<>>, n |-> 0]
StrTok(str) == [k |-> "str", key |-> "", s |-> str, n |-> 0]
NumTok(num) == [k |-> "num", key |-> "", s |-> <<>>, n |-> num]

SerTestCase(t) ==
    <<Punct("{"),
      Key("name"), StrTok(t.name),
      Key("file"), StrTok(t.file),
      Key("status"), StrTok(t.status),
      Key("duration"), NumTok(t.duration),
      Key("displayName"), StrTok(t.displayName),
      Punct("}")>>

SerTestFailure(f) ==
    <<Punct("{"),
      Key("name"), StrTok(f.name),
      Key("file"), StrTok(f.file),
      Key("message"), StrTok(f.message),
      Key("stack"), StrTok(f.stack),
      Punct("}")>>

SerSummary(m) ==
    <<Punct("{"),
      Key("total"), NumTok(m.total),
      Key("passed"), NumTok(m.passed),
      Key("failed"), NumTok(m.failed),
      Key("skipped"), NumTok(m.skipped),
      Punct("}")>>

\* The evidence map of a feedback: each key with its (numeric) value.
RECURSIVE SerEvidence(_)
SerEvidence(pairs) ==
    IF pairs = <<>> THEN <<>>
    ELSE <<Key(Head(pairs).key), NumTok(Head(pairs).val)>> \o SerEvidence(Tail(pairs))

SerFeedback(e) ==
    <<Punct("{"),
      Key("category"), StrTok(e.category),
      Key("severity"), StrTok(e.severity),
      Key("title"), StrTok(e.title),
      Key("evidence"), Punct("{")>> \o SerEvidence(e.evidence) \o <<Punct("}"),
      Key("message"), StrTok(e.message),
      Key("recommendation"), StrTok(e.recommendation),
      Punct("}")>>

RECURSIVE SerTests(_)
SerTests(items) ==
    IF items = <<>> THEN <<>> ELSE SerTestCase(Head(items)) \o SerTests(Tail(items))

RECURSIVE SerFailures(_)
SerFailures(items) ==
    IF items = <<>> THEN <<>> ELSE SerTestFailure(Head(items)) \o SerFailures(Tail(items))

RECURSIVE SerEducational(_)
SerEducational(items) ==
    IF items = <<>> THEN <<>> ELSE SerFeedback(Head(items)) \o SerEducational(Tail(items))

\* gson.toJson(testJson, writer)
Serialize(j) ==
    <<Punct("{"),
      Key("framework"), StrTok(j.framework),
      Key("timestamp"), NumTok(j.timestamp),
      Key("duration"), NumTok(j.duration),
      Key("summary")>> \o SerSummary(j.summary) \o
    <<Key("tests"), Punct("[")>> \o SerTests(j.tests) \o <<Punct("]"),
      Key("failures"), Punct("[")>> \o SerFailures(j.failures) \o <<Punct("]"),
      Key("educational"), Punct("[")>> \o SerEducational(j.educational) \o
    <<Punct("]"), Punct("}")>>

(***************************************************************************)
(* The reader of the output file: a JSON parser over the tokens, as        *)
(* gson.fromJson(text, JsonObject.class) in the tests.                     *)
(***************************************************************************)
ParseFail == [ok |-> FALSE, next |-> 0]

IsPunct(t, p) == t.k = "punct" /\ t.key = p

RECURSIVE ParseValue(_, _)
RECURSIVE ParseMembers(_, _, _)
RECURSIVE ParseItems(_, _, _)

ParseValue(toks, i) ==
    IF i > Len(toks) THEN ParseFail
    ELSE IF toks[i].k = "str" THEN [ok |-> TRUE, next |-> i + 1, kind |-> "str", s |-> toks[i].s]
    ELSE IF toks[i].k = "num" THEN [ok |-> TRUE, next |-> i + 1, kind |-> "num", n |-> toks[i].n]
    ELSE IF IsPunct(toks[i], "{") THEN ParseMembers(toks, i + 1, <<>>)
    ELSE IF IsPunct(toks[i], "[") THEN ParseItems(toks, i + 1, <<>>)
    ELSE ParseFail

ParseMembers(toks, i, acc) ==
    IF i > Len(toks) THEN ParseFail
    ELSE IF IsPunct(toks[i], "}")
         THEN [ok |-> TRUE, next |-> i + 1, kind |-> "obj", members |-> acc]
    ELSE IF toks[i].k = "key"
         THEN LET r == ParseValue(toks, i + 1)
              IN  IF r.ok
                  THEN ParseMembers(toks, r.next, Append(acc, [key |-> toks[i].key, val |-> r]))
                  ELSE ParseFail
    ELSE ParseFail

ParseItems(toks, i, acc) ==
    IF i > Len(toks) THEN ParseFail
    ELSE IF IsPunct(toks[i], "]")
         THEN [ok |-> TRUE, next |-> i + 1, kind |-> "arr", items |-> acc]
    ELSE LET r == ParseValue(toks, i)
         IN  IF r.ok THEN ParseItems(toks, r.next, Append(acc, r)) ELSE ParseFail

\* The whole text is one JSON object.
ParseDocument(toks) ==
    LET r == ParseValue(toks, 1)
    IN  IF r.ok /\ r.next = Len(toks) + 1 /\ r.kind = "obj" THEN r ELSE ParseFail

HasMember(obj, key) == \E i \in 1..Len(obj.members) : obj.members[i].key = key

Member(obj, key) ==
    obj.members[CHOOSE i \in 1..Len(obj.members) : obj.members[i].key = key].val

(***************************************************************************)
(* The file system under the project root.                                 *)
(***************************************************************************)
MarkerDir == ".claude/tdd-guard"
DataDir == ".claude/tdd-guard/data"
OutputPath == ".claude/tdd-guard/data/test.json"
TempPath == ".claude/tdd-guard/data/test.json.tmp"

Paths == {MarkerDir, DataDir, OutputPath, TempPath}

Absent == [kind |-> "absent", content |-> <<>>]
Directory == [kind |-> "dir", content |-> <<>>]
File(content) == [kind |-> "file", content |-> content]

EmptyFs == [p \in Paths |-> Absent]

\* outputPath.getParent() and the directories above it, below the project root.
ParentsOf(path) ==
    IF path \in {OutputPath, TempPath} THEN {MarkerDir, DataDir}
    ELSE IF path = DataDir THEN {MarkerDir}
    ELSE {}

\* The mutant of TempFileOf that serialises straight into the output path.
TempFileSame(outputPath) == outputPath

\* outputPath.resolveSibling(outputPath.getFileName() + ".tmp")
TempFileOf(outputPath) == CASE outputPath = OutputPath -> TempPath

\* Files.createDirectories(outputPath.getParent())
FsCreateDirectories(f, outputPath) ==
    [p \in Paths |-> IF p \in ParentsOf(outputPath) THEN Directory ELSE f[p]]

\* Files.newBufferedWriter(path): CREATE, TRUNCATE_EXISTING, WRITE
FsOpenTruncate(f, path) == [f EXCEPT ![path] = File(<<>>)]

FsAppend(f, path, toks) == [f EXCEPT ![path] = File(f[path].content \o toks)]

FsUnlink(f, path) == [f EXCEPT ![path] = Absent]

\* rename(2); Files.move returns at once when source and target are the same file.
FsRename(f, source, target) ==
    IF source = target THEN f
    ELSE [f EXCEPT ![target] = f[source], ![source] = Absent]

(***************************************************************************)
(* TestJsonWriter.write, step by step.                                     *)
(***************************************************************************)
IdChar == <<"1", "2", "3", "4">>

\* The lists handed to the writer.
SampleName(i) == <<"t", IdChar[i]>>
SampleFile(i) == <<"F", IdChar[i]>>

SampleTestCase(i, status) == TestCase(SampleName(i), SampleFile(i), status, 0, SampleName(i))

SampleFailure(i) == TestFailure(SampleName(i), SampleFile(i), <<"m">>, <<"s">>)

SampleFeedback ==
    [category |-> <<"c">>, severity |-> <<"i", "n", "f", "o">>, title |-> <<"T">>,
     evidence |-> <<[key |-> "count", val |-> 1]>>,
     message |-> <<"M">>, recommendation |-> <<"R">>]

TestLists ==
    UNION {{[i \in 1..n |-> SampleTestCase(i, sts[i])] : sts \in [1..n -> Statuses]}
           : n \in 0..MaxTests}

FailureLists == {[i \in 1..n |-> SampleFailure(i)] : n \in 0..MaxFailures}

FeedbackLists == {<<>>, <<SampleFeedback>>}

\* A document persisted by an earlier run.
PrevJson == TestJson(0, 0, <<SampleTestCase(1, Passed)>>, <<>>, <<>>)

\* What earlier runs can have left under the project root.
WriterInitFs ==
    {EmptyFs} \cup
    {[p \in Paths |-> IF p \in {MarkerDir, DataDir} THEN Directory
                      ELSE IF p = OutputPath THEN out ELSE tmp]
       : out \in {Absent, File(Serialize(PrevJson))}, tmp \in {Absent}}

WrIdle ==
    /\ wPc = "idle"
    /\ wJson = NoJson
    /\ wFlushed = 0
    /\ prevOut = Absent

ResIdle ==
    /\ sysProps = [n \in SysPropNames |-> None]
    /\ envVars = [n \in EnvVarNames |-> None]
    /\ lastKind = "none"
    /\ resolved = <<>>
    /\ candidates = <<>>

WrInit ==
    /\ WrIdle
    /\ ResIdle
    /\ srcFiles = {}
    /\ tests = <<>> /\ failures = <<>> /\ testStartTimes = <<>> /\ testPlanStartTime = 0
    /\ tpc = <<>> /\ tcur = <<>> /\ picked = {} /\ returned = {}
    /\ now \in 1..MaxClock
    /\ fs \in WriterInitFs
    /\ NoListener
    /\ NoFunction

WrTokens == Serialize(wJson)

\* The TestJson object is built.
WriteBegin ==
    /\ wPc = "idle"
    /\ \E testList \in TestLists, failureList \in FailureLists,
          duration \in 0..now, educational \in FeedbackLists :
         wJson' = TestJson(now, duration, testList, failureList, educational)
    /\ wPc' = "mkdirs"
    /\ wFlushed' = 0
    /\ prevOut' = fs[OutputPath]
    /\ UNCHANGED <<fs, now, notWriter>>

CreateDirectories ==
    /\ wPc = "mkdirs"
    /\ fs' = FsCreateDirectories(fs, OutputPath)
    /\ wPc' = "open"
    /\ UNCHANGED <<wJson, wFlushed, prevOut, now, notWriter>>

CreateDirectoriesFails ==
    /\ wPc = "mkdirs"
    /\ wPc' = "raised"
    /\ UNCHANGED <<fs, wJson, wFlushed, prevOut, now, notWriter>>

OpenTemp ==
    /\ wPc = "open"
    /\ fs' = FsOpenTruncate(fs, TempFileOf(OutputPath))
    /\ wPc' = "serialize"
    /\ UNCHANGED <<wJson, wFlushed, prevOut, now, notWriter>>

OpenTempFails ==
    /\ wPc = "open"
    /\ wPc' = "raised"
    /\ UNCHANGED <<fs, wJson, wFlushed, prevOut, now, notWriter>>

\* The buffered writer flushes its next tokens to the temporary file.
FlushChunk ==
    /\ wPc = "serialize"
    /\ wFlushed < Len(WrTokens)
    /\ LET upTo == IF wFlushed + ChunkTokens < Len(WrTokens)
                   THEN wFlushed + ChunkTokens ELSE Len(WrTokens)
       IN  /\ fs' = FsAppend(fs, TempFileOf(OutputPath), SubSeq(WrTokens, wFlushed + 1, upTo))
           /\ wFlushed' = upTo
    /\ UNCHANGED <<wPc, wJson, prevOut, now, notWriter>>

\* gson.toJson or the closing flush throws; try-with-resources closes the writer.
SerializeFails ==
    /\ wPc = "serialize"
    /\ wPc' = "raised"
    /\ UNCHANGED <<fs, wJson, wFlushed, prevOut, now, notWriter>>

CloseWriter ==
    /\ wPc = "serialize"
    /\ wFlushed = Len(WrTokens)
    /\ wPc' = "move"
    /\ UNCHANGED <<fs, wJson, wFlushed, prevOut, now, notWriter>>

\* Files.move(tempFile, outputPath, REPLACE_EXISTING), where the platform renames
\* over the target.
MoveAtomic ==
    /\ wPc = "move"
    /\ fs' = FsRename(fs, TempFileOf(OutputPath), OutputPath)
    /\ wPc' = "returned"
    /\ UNCHANGED <<wJson, wFlushed, prevOut, now, notWriter>>

\* Files.move without ATOMIC_MOVE, where the platform first deletes an existing
\* target and then renames.
MoveUnlinkTarget ==
    /\ wPc = "move"
    /\ fs[OutputPath].kind = "file"
    /\ TempFileOf(OutputPath) # OutputPath
    /\ fs' = FsUnlink(fs, OutputPath)
    /\ wPc' = "rename"
    /\ UNCHANGED <<wJson, wFlushed, prevOut, now, notWriter>>

MoveRename ==
    /\ wPc = "rename"
    /\ fs' = FsRename(fs, TempFileOf(OutputPath), OutputPath)
    /\ wPc' = "returned"
    /\ UNCHANGED <<wJson, wFlushed, prevOut, now, notWriter>>

MoveFails ==
    /\ wPc \in {"move", "rename"}
    /\ wPc' = "raised"
    /\ UNCHANGED <<fs, wJson, wFlushed, prevOut, now, notWriter>>

WrNext ==
    \/ WriteBegin
    \/ CreateDirectories
    \/ CreateDirectoriesFails
    \/ OpenTemp
    \/ OpenTempFails
    \/ FlushChunk
    \/ SerializeFails
    \/ CloseWriter
    \/ MoveAtomic
    \/ MoveUnlinkTarget
    \/ MoveRename
    \/ MoveFails

SpecWriter == WrInit /\ [][WrNext]_vars

(***************************************************************************)
(* TestResultCollector.                                                    *)
(***************************************************************************)
Threads == {"w1", "w2"}

\* Identifier 0 is a container, the others are tests.
TestIds == 1..NumTests
AllIds == 0..NumTests

ClassATest == <<"p", ".", "A", "T", "e", "s", "t">>
ClassSvc == <<"p", ".", "S", "v", "c">>

MethodSource(className, methodName) ==
    [kind |-> "method", className |-> className, methodName |-> methodName]
ClassSource(className) ==
    [kind |-> "class", className |-> className, methodName |-> <<>>]
NoSource == [kind |-> "none", className |-> <<>>, methodName |-> <<>>]

\* The TestIdentifier the engine passes for an identifier: a container, two
\* kinds of test methods (of a test class and of another class), and
\* a dynamic test without a source.
TestIdentifierOf(id) ==
    IF id = 0
    THEN [uid |-> id, isTest |-> FALSE, source |-> ClassSource(ClassATest),
          displayName |-> <<"A", "T", "e", "s", "t">>]
    ELSE IF id % 3 = 1
    THEN [uid |-> id, isTest |-> TRUE, source |-> MethodSource(ClassATest, <<"m", "1">>),
          displayName |-> <<"m", "1", "(", ")">>]
    ELSE IF id % 3 = 2
    THEN [uid |-> id, isTest |-> TRUE, source |-> MethodSource(ClassSvc, <<"m", "2">>),
          displayName |-> <<"m", "2", "(", ")">>]
    ELSE [uid |-> id, isTest |-> TRUE, source |-> NoSource,
          displayName |-> <<"d", "y", "n">>]

\* TestExecutionResult: a status and an optional throwable, whose message may
\* be null.
Throwable(message) == [message |-> message, simpleName |-> <<"E", "r", "r">>]

ExecutionResult(status, throwable) == [status |-> status, throwable |-> throwable]

Results ==
    {ExecutionResult("SUCCESSFUL", None),
     ExecutionResult("FAILED", None),
     ExecutionResult("FAILED", Some(Throwable(Some(<<"b", "a", "d">>)))),
     ExecutionResult("ABORTED", None)}

\* The mutant of mapStatus without the ABORTED case.
mapStatusNoAborted(status) ==
    CASE status = "SUCCESSFUL" -> Passed
      [] status = "FAILED" -> Failed
      [] OTHER -> Unknown

mapStatus(status) ==
    CASE status = "SUCCESSFUL" -> Passed
      [] status = "FAILED" -> Failed
      [] status = "ABORTED" -> Skipped
      [] OTHER -> Unknown

RECURSIVE ReplaceChar(_, _, _)
ReplaceChar(str, old, new) ==
    IF str = <<>> THEN <<>>
    ELSE <<IF Head(str) = old THEN new ELSE Head(str)>> \o ReplaceChar(Tail(str), old, new)

EndsWith(str, suffix) ==
    /\ Len(str) >= Len(suffix)
    /\ SubSeq(str, Len(str) - Len(suffix) + 1, Len(str)) = suffix

DotJava == <<".", "j", "a", "v", "a">>

\* Files.exists(projectRoot.resolve(dir).resolve(relativePath))
SourceExists(dir, relativePath) == (dir \o <<"/">> \o relativePath) \in srcFiles

classNameToFilePath(className) ==
    LET relativePath == ReplaceChar(className, ".", "/") \o DotJava
        isTestClass == \/ EndsWith(className, <<"T", "e", "s", "t">>)
                       \/ EndsWith(className, <<"T", "e", "s", "t", "s">>)
        directories == CandidateDirs(isTestClass)
        found == {i \in 1..Len(directories) : SourceExists(directories[i], relativePath)}
    IN  IF found # {}
        THEN directories[CHOOSE i \in found : \A j \in found : i <= j] \o <<"/">> \o relativePath
        ELSE directories[1] \o <<"/">> \o relativePath

extractFilePath(test) ==
    IF test.source.kind \in {"method", "class"}
    THEN classNameToFilePath(test.source.className)
    ELSE <<>>

extractMethodName(test) ==
    IF test.source.kind = "method" THEN test.source.methodName ELSE test.displayName

\* throwable.printStackTrace: the throwable's type and message, then its frames.
getStackTrace(throwable) ==
    throwable.simpleName
        \o (IF throwable.message = None THEN <<>> ELSE <<":">> \o throwable.message[1])
        \o <<"@">>

MapPut(map, key, value) ==
    [k \in DOMAIN map \cup {key} |-> IF k = key THEN value ELSE map[k]]

GetOrDefault(map, key, default) == IF key \in DOMAIN map THEN map[key] ELSE default

NoStartTimes == [k \in {} |-> 0]

\* recordTestStart: the map after the call.
recordTestStart(test, time) ==
    IF ~test.isTest THEN testStartTimes
    ELSE MapPut(testStartTimes, test.uid, time)

\* The mutant of FinishedTestCase that subtracts the other way round.
FinishedTestCaseReversed(test, result, startTime, time) ==
    TestCase(extractMethodName(test), extractFilePath(test), mapStatus(result.status),
             startTime - time, test.displayName)

\* recordTestFinish: the TestCase it appends.
FinishedTestCase(test, result, startTime, time) ==
    TestCase(extractMethodName(test), extractFilePath(test), mapStatus(result.status),
             time - startTime, test.displayName)

\* status.equals("failed") && result.getThrowable().isPresent()
RecordsFailure(result) ==
    mapStatus(result.status) = Failed /\ result.throwable # None

\* recordTestFinish: the TestFailure it appends.
FinishedTestFailure(test, result) ==
    LET throwable == result.throwable[1]
    IN  TestFailure(extractMethodName(test), extractFilePath(test),
                    IF throwable.message # None THEN throwable.message[1]
                    ELSE throwable.simpleName,
                    getStackTrace(throwable))

\* recordSkipped: the TestCase it appends.
SkippedTestCase(test) ==
    TestCase(extractMethodName(test), extractFilePath(test), Skipped, 0, test.displayName)

getTotalTests == Len(tests)
getPassedTests == CountStatus(tests, Passed)
getFailedTests == CountStatus(tests, Failed)
getSkippedTests == CountStatus(tests, Skipped)

RECURSIVE Reversed(_)
Reversed(list) == IF list = <<>> THEN <<>> ELSE Append(Reversed(Tail(list)), Head(list))

\* The mutant of getTests that lists the newest outcome first.
getTestsNewestFirst == Reversed(tests)

\* new ArrayList<>(tests): a copy of the array the list holds at the call.
getTests == tests

getFailures == failures

(***************************************************************************)
(* Worker threads of the engine calling one collector concurrently.  Each  *)
(* access to the concurrent map or to a copy-on-write list is one step.    *)
(***************************************************************************)
NoCall == [id |-> 0, result |-> ExecutionResult("SUCCESSFUL", None), startTime |-> 0]

\* The test class of the first test method exists under the second default
\* test directory.
CollectorSources == {<<"k", "/">> \o ReplaceChar(ClassATest, ".", "/") \o DotJava}

ColInit ==
    /\ ResIdle
    /\ WrIdle
    /\ fs = EmptyFs
    /\ now = 0
    /\ srcFiles = CollectorSources
    /\ tests = <<>>
    /\ failures = <<>>
    /\ testStartTimes = NoStartTimes
    /\ testPlanStartTime = 0
    /\ tpc = [t \in Threads |-> "idle"]
    /\ tcur = [t \in Threads |-> NoCall]
    /\ picked = {}
    /\ returned = {}
    /\ NoListener
    /\ NoFunction

\* System.currentTimeMillis() advances.
Tick ==
    /\ now < MaxClock
    /\ now' = now + 1
    /\ UNCHANGED <<resVars, srcFiles, colVars, thrVars, notCollector>>

\* recordTestStart, recordTestFinish or recordSkipped for the container: each
\* returns at its first line, test.isTest() being false.
ContainerEvent(t) ==
    /\ tpc[t] = "idle"
    /\ ~TestIdentifierOf(0).isTest
    /\ testStartTimes' = recordTestStart(TestIdentifierOf(0), now)
    /\ returned' = returned \cup {0}
    /\ UNCHANGED <<tests, failures, testPlanStartTime, tpc, tcur, picked, now, resVars,
                   srcFiles, notCollector>>

\* A thread calls recordTestStart for an identifier nobody has reported yet.
TestStart(t, id) ==
    /\ tpc[t] = "idle"
    /\ id \notin picked
    /\ testStartTimes' = recordTestStart(TestIdentifierOf(id), now)
    /\ tpc' = [tpc EXCEPT ![t] = "started"]
    /\ tcur' = [tcur EXCEPT ![t] = [NoCall EXCEPT !.id = id]]
    /\ picked' = picked \cup {id}
    /\ UNCHANGED <<tests, failures, testPlanStartTime, returned, now, resVars, srcFiles,
                   notCollector>>

\* recordTestFinish up to the look-up of the start time; the identifier is the
\* one the thread started, or one for which no start was reported.
FinishLookup(t, id) ==
    /\ \/ tpc[t] = "started" /\ tcur[t].id = id
       \/ tpc[t] = "idle" /\ id \notin picked
    /\ picked' = picked \cup {id}
    /\ IF ~TestIdentifierOf(id).isTest
       THEN /\ tpc' = [tpc EXCEPT ![t] = "idle"]
            /\ tcur' = [tcur EXCEPT ![t] = NoCall]
            /\ returned' = returned \cup {id}
       ELSE /\ tpc' = [tpc EXCEPT ![t] = "add"]
            /\ tcur' = [tcur EXCEPT ![t] =
                          [NoCall EXCEPT !.id = id,
                                         !.startTime = GetOrDefault(testStartTimes, id, now)]]
            /\ UNCHANGED returned
    /\ UNCHANGED <<colVars, now, resVars, srcFiles, notCollector>>

\* The mutant of FinishAddTest that appends the TestFailure of a failed test
\* where its TestCase belongs.
FinishAddFailureFirst(t, result) ==
    /\ tpc[t] = "add"
    /\ IF RecordsFailure(result)
       THEN /\ failures' = Append(failures, FinishedTestFailure(TestIdentifierOf(tcur[t].id),
                                                                result))
            /\ UNCHANGED tests
       ELSE /\ tests' = Append(tests, FinishedTestCase(TestIdentifierOf(tcur[t].id), result,
                                                       tcur[t].startTime, now))
            /\ UNCHANGED failures
    /\ tpc' = [tpc EXCEPT ![t] = "idle"]
    /\ tcur' = [tcur EXCEPT ![t] = NoCall]
    /\ returned' = returned \cup {tcur[t].id}
    /\ UNCHANGED <<testStartTimes, testPlanStartTime, picked, now, resVars, srcFiles,
                   notCollector>>

\* recordTestFinish: the duration is taken and the TestCase appended.  The
\* result the engine passed is local to the call until here.
FinishAddTest(t, result) ==
    /\ tpc[t] = "add"
    /\ tests' = Append(tests, FinishedTestCase(TestIdentifierOf(tcur[t].id), result,
                                               tcur[t].startTime, now))
    /\ IF RecordsFailure(result)
       THEN /\ tpc' = [tpc EXCEPT ![t] = "fail"]
            /\ tcur' = [tcur EXCEPT ![t].result = result]
            /\ UNCHANGED returned
       ELSE /\ tpc' = [tpc EXCEPT ![t] = "idle"]
            /\ tcur' = [tcur EXCEPT ![t] = NoCall]
            /\ returned' = returned \cup {tcur[t].id}
    /\ UNCHANGED <<failures, testStartTimes, testPlanStartTime, picked, now, resVars,
                   srcFiles, notCollector>>

\* recordTestFinish: the TestFailure is appended and the call returns.
FinishAddFailure(t) ==
    /\ tpc[t] = "fail"
    /\ failures' = Append(failures, FinishedTestFailure(TestIdentifierOf(tcur[t].id),
                                                        tcur[t].result))
    /\ tpc' = [tpc EXCEPT ![t] = "idle"]
    /\ tcur' = [tcur EXCEPT ![t] = NoCall]
    /\ returned' = returned \cup {tcur[t].id}
    /\ UNCHANGED <<tests, testStartTimes, testPlanStartTime, picked, now, resVars,
                   srcFiles, notCollector>>

\* recordSkipped for an identifier nobody has reported yet.
TestSkipped(t, id) ==
    /\ tpc[t] = "idle"
    /\ id \notin picked
    /\ picked' = picked \cup {id}
    /\ returned' = returned \cup {id}
    /\ tests' = IF TestIdentifierOf(id).isTest
                THEN Append(tests, SkippedTestCase(TestIdentifierOf(id)))
                ELSE tests
    /\ UNCHANGED <<failures, testStartTimes, testPlanStartTime, tpc, tcur, now, resVars,
                   srcFiles, notCollector>>

ColNext ==
    \/ Tick
    \/ \E t \in Threads : ContainerEvent(t)
    \/ \E t \in Threads, id \in TestIds : TestStart(t, id)
    \/ \E t \in Threads, id \in TestIds : FinishLookup(t, id)
    \/ \E t \in Threads, result \in Results : FinishAddTest(t, result)
    \/ \E t \in Threads : FinishAddFailure(t)
    \/ \E t \in Threads, id \in TestIds : TestSkipped(t, id)

SpecCollector == ColInit /\ [][ColNext]_vars

(***************************************************************************)
(* A reader (the thread of the run-finish callback) takes snapshots of the *)
(* lists while the worker threads record; output holds the latest one.     *)
(***************************************************************************)
Snapshot(of, items) == [of |-> of, items |-> items]

SnapshotTests ==
    /\ output' = Some(Snapshot("tests", getTests))
    /\ UNCHANGED <<input, resVars, now, fs, wrVars, srcFiles, colVars, thrVars, lsnVars>>

SnapshotFailures ==
    /\ output' = Some(Snapshot("failures", getFailures))
    /\ UNCHANGED <<input, resVars, now, fs, wrVars, srcFiles, colVars, thrVars, lsnVars>>

SnapNext == ColNext \/ SnapshotTests \/ SnapshotFailures

SpecSnapshots == ColInit /\ [][SnapNext]_vars

(***************************************************************************)
(* classNameToFilePath as one call, with configured directories.           *)
(***************************************************************************)
\* Stands for U+0000, which no path string may hold on any platform.
Nul == "0"

\* Path.resolve(String) throws InvalidPathException for a string that is no path.
IsValidPath(dir) == \A i \in 1..Len(dir) : dir[i] # Nul

\* Whether the loop of classNameToFilePath throws: it calls
\* projectRoot.resolve(dir) for each directory in turn until the file is found.
classNameToFilePathThrows(className) ==
    LET relativePath == ReplaceChar(className, ".", "/") \o DotJava
        isTestClass == \/ EndsWith(className, <<"T", "e", "s", "t">>)
                       \/ EndsWith(className, <<"T", "e", "s", "t", "s">>)
        directories == CandidateDirs(isTestClass)
        found == {i \in 1..Len(directories) : SourceExists(directories[i], relativePath)}
    IN  \E i \in 1..Len(directories) :
           /\ ~IsValidPath(directories[i])
           /\ \A j \in found : i <= j

\* The configured values: one or two directories, in both orders, and lists
\* with an element that is no path.
PathConfigValues ==
    {None, Some(<<"a">>), Some(<<"a", ",", "b">>), Some(<<"b", ",", "a">>),
     Some(<<Nul, ",", "a">>), Some(<<"a", ",", Nul>>)}

PathClasses == {ClassATest, ClassSvc}

SourceFile(dir, className) == dir \o <<"/">> \o ReplaceChar(className, ".", "/") \o DotJava

\* The source files that may exist under the project root.
PathFiles ==
    {SourceFile(dir, ClassATest) : dir \in {<<"a">>, <<"b">>, <<"t">>, <<"k">>}}
       \cup {SourceFile(dir, ClassSvc) : dir \in {<<"b">>, <<"n">>}}

\* The test directories come from the system property, the main directories
\* from the environment.
PathInit ==
    /\ \E s \in PathConfigValues, e \in PathConfigValues :
          /\ sysProps = [n \in SysPropNames |-> IF n = TestSysProp THEN s ELSE None]
          /\ envVars = [n \in EnvVarNames |-> IF n = MainEnvVar THEN e ELSE None]
    /\ lastKind = "none"
    /\ resolved = <<>>
    /\ candidates = <<>>
    /\ WrIdle
    /\ fs = EmptyFs
    /\ now = 0
    /\ srcFiles \in SUBSET PathFiles
    /\ tests = <<>> /\ failures = <<>> /\ testStartTimes = <<>> /\ testPlanStartTime = 0
    /\ tpc = <<>> /\ tcur = <<>> /\ picked = {} /\ returned = {}
    /\ NoListener
    /\ NoFunction

Raised == [raised |-> TRUE, value |-> <<>>]
Returned(value) == [raised |-> FALSE, value |-> value]

FilePathOf(className) ==
    /\ output = None
    /\ input' = Some(className)
    /\ output' = Some(IF classNameToFilePathThrows(className) THEN Raised
                      ELSE Returned(classNameToFilePath(className)))
    /\ UNCHANGED <<resVars, now, fs, wrVars, srcFiles, colVars, thrVars, lsnVars>>

PathNext == \E className \in PathClasses : FilePathOf(className)

SpecPaths == PathInit /\ [][PathNext]_vars

(***************************************************************************)
(* TddGuardListener: construction.                                         *)
(***************************************************************************)
LowerCase == <<"t", "r", "u", "e", "n", "o">>
UpperCase == <<"T", "R", "U", "E", "N", "O">>

toUpperCase(c) ==
    IF \E i \in 1..Len(LowerCase) : LowerCase[i] = c
    THEN UpperCase[CHOOSE i \in 1..Len(LowerCase) : LowerCase[i] = c]
    ELSE c

toLowerCase(c) ==
    IF \E i \in 1..Len(UpperCase) : UpperCase[i] = c
    THEN LowerCase[CHOOSE i \in 1..Len(UpperCase) : UpperCase[i] = c]
    ELSE c

\* str.equalsIgnoreCase(other), other nullable.
equalsIgnoreCase(str, other) ==
    /\ other # None
    /\ Len(other[1]) = Len(str)
    /\ \A i \in 1..Len(str) :
          \/ str[i] = other[1][i]
          \/ toUpperCase(str[i]) = toUpperCase(other[1][i])
          \/ toLowerCase(str[i]) = toLowerCase(other[1][i])

\* Files.exists(projectRoot.resolve(path))
FilesExists(f, path) == f[path].kind # "absent"

\* The mutant of detectTddGuard that compares with equals.
detectTddGuardCaseSensitive(envValue, f) ==
    \/ envValue = Some(<<"t", "r", "u", "e">>)
    \/ FilesExists(f, MarkerDir)

detectTddGuard(envValue, f) ==
    \/ equalsIgnoreCase(<<"t", "r", "u", "e">>, envValue)
    \/ FilesExists(f, MarkerDir)

\* The values TDDGUARD_ENABLED takes.
EnvValues ==
    {None, Some(<<"t", "r", "u", "e">>), Some(<<"T", "r", "u", "E">>), Some(<<"n", "o">>)}

\* What the project root holds when the listener is constructed.
ListenerInitFs == WriterInitFs \cup {[EmptyFs EXCEPT ![MarkerDir] = Directory]}

\* The listener as its constructor leaves it, for these values of the
\* environment variable and these contents of the project root.
Constructed(envValues, roots) ==
    /\ ResIdle
    /\ WrIdle
    /\ now = 1
    /\ srcFiles = CollectorSources
    /\ tests = <<>>
    /\ failures = <<>>
    /\ testStartTimes = NoStartTimes
    /\ testPlanStartTime = 0
    /\ tpc = <<>> /\ tcur = <<>> /\ picked = {} /\ returned = {}
    /\ NoFunction
    /\ fs \in roots
    /\ envEnabled \in envValues
    /\ enabled = detectTddGuard(envEnabled, fs)
    /\ collector = NullCollector
    /\ ctorEnv = envEnabled
    /\ ctorMarker = FilesExists(fs, MarkerDir)
    /\ lastCall = "none"
    /\ lastOutcome = "returned"

(***************************************************************************)
(* The surroundings of the listener after its construction.                *)
(***************************************************************************)
notSurroundings == <<resVars, now, wrVars, srcFiles, colVars, thrVars, enabled, collector,
                     ctorEnv, ctorMarker, lastCall, lastOutcome, fnVars>>

\* TDDGUARD_ENABLED is set to another value, or unset.
SetEnvironment(v) ==
    /\ v # envEnabled
    /\ envEnabled' = v
    /\ UNCHANGED <<fs, notSurroundings>>

\* Somebody creates the marker directory.
CreateMarker ==
    /\ fs[MarkerDir] = Absent
    /\ fs' = [fs EXCEPT ![MarkerDir] = Directory]
    /\ UNCHANGED <<envEnabled, notSurroundings>>

\* Somebody removes the marker directory, which is empty.
RemoveMarker ==
    /\ fs[MarkerDir] = Directory
    /\ fs[DataDir] = Absent
    /\ fs' = [fs EXCEPT ![MarkerDir] = Absent]
    /\ UNCHANGED <<envEnabled, notSurroundings>>

(***************************************************************************)
(* TddGuardListener: the five lifecycle callbacks.  The engine delivers    *)
(* them one at a time; it reports the end of an identifier once, and the   *)
(* end of the run last.  What is thrown inside the try block of a callback *)
(* is "none", "exception" (a java.lang.Exception) or "error" (a            *)
(* java.lang.Error, such as OutOfMemoryError).                             *)
(***************************************************************************)
\* A null TestIdentifier.
NullArg == 0 - 1
Args == AllIds \cup {NullArg}

\* catch (Exception e)
Caught(thrown) == thrown = "exception"

\* How a callback ends when its try block throws this.
Ending(thrown) == IF thrown = "none" \/ Caught(thrown) THEN "returned" ELSE "thrown"

\* What the try block of an event callback throws: a null identifier makes
\* test.isTest() throw NullPointerException.
ThrownFor(arg, fault) == IF arg = NullArg THEN "exception" ELSE fault

\* The mutant of PlanStartReturns in which the run-start callback never
\* returns at its first line.
PlanStartReturnsNever == FALSE

\* if (!enabled) return;
PlanStartReturns == ~enabled

\* if (!enabled || collector == null) return;
EventReturns == ~enabled \/ collector = NullCollector

\* The engine has not yet reported the end of the run.
Running == lastCall # "testPlanExecutionFinished"

notCallback == <<resVars, now, srcFiles, envEnabled, enabled, ctorEnv, ctorMarker, tpc, tcur,
                 returned, fnVars>>

testPlanExecutionStarted(fault) ==
    /\ Running
    /\ lastCall' = "testPlanExecutionStarted"
    /\ IF PlanStartReturns
       THEN /\ lastOutcome' = "returned"
            /\ UNCHANGED <<collector, colVars>>
       ELSE IF fault = "none"
       THEN /\ collector' = ACollector
            /\ tests' = <<>>
            /\ failures' = <<>>
            /\ testStartTimes' = NoStartTimes
            /\ testPlanStartTime' = now
            /\ lastOutcome' = "returned"
       ELSE /\ lastOutcome' = Ending(fault)
            /\ UNCHANGED <<collector, colVars>>
    /\ UNCHANGED <<picked, fs, wrVars, notCallback>>

executionStarted(arg, fault) ==
    /\ Running
    /\ lastCall' = "executionStarted"
    /\ IF EventReturns
       THEN /\ lastOutcome' = "returned"
            /\ UNCHANGED testStartTimes
       ELSE IF ThrownFor(arg, fault) # "none"
       THEN /\ lastOutcome' = Ending(ThrownFor(arg, fault))
            /\ UNCHANGED testStartTimes
       ELSE /\ testStartTimes' = recordTestStart(TestIdentifierOf(arg), now)
            /\ lastOutcome' = "returned"
    /\ UNCHANGED <<tests, failures, testPlanStartTime, collector, picked, fs, wrVars,
                   notCallback>>

executionFinished(arg, result, fault) ==
    /\ Running
    /\ arg = NullArg \/ arg \notin picked
    /\ picked' = IF arg = NullArg THEN picked ELSE picked \cup {arg}
    /\ lastCall' = "executionFinished"
    /\ IF EventReturns
       THEN /\ lastOutcome' = "returned"
            /\ UNCHANGED <<tests, failures>>
       ELSE IF ThrownFor(arg, fault) # "none"
       THEN /\ lastOutcome' = Ending(ThrownFor(arg, fault))
            /\ UNCHANGED <<tests, failures>>
       ELSE LET test == TestIdentifierOf(arg)
                startTime == GetOrDefault(testStartTimes, arg, now)
            IN  /\ lastOutcome' = "returned"
                /\ IF ~test.isTest
                   THEN UNCHANGED <<tests, failures>>
                   ELSE /\ tests' = Append(tests, FinishedTestCase(test, result, startTime, now))
                        /\ failures' = IF RecordsFailure(result)
                                       THEN Append(failures, FinishedTestFailure(test, result))
                                       ELSE failures
    /\ UNCHANGED <<testStartTimes, testPlanStartTime, collector, fs, wrVars, notCallback>>

executionSkipped(arg, fault) ==
    /\ Running
    /\ arg = NullArg \/ arg \notin picked
    /\ picked' = IF arg = NullArg THEN picked ELSE picked \cup {arg}
    /\ lastCall' = "executionSkipped"
    /\ IF EventReturns
       THEN /\ lastOutcome' = "returned"
            /\ UNCHANGED tests
       ELSE IF ThrownFor(arg, fault) # "none"
       THEN /\ lastOutcome' = Ending(ThrownFor(arg, fault))
            /\ UNCHANGED tests
       ELSE /\ lastOutcome' = "returned"
            /\ tests' = IF TestIdentifierOf(arg).isTest
                        THEN Append(tests, SkippedTestCase(TestIdentifierOf(arg)))
                        ELSE tests
    /\ UNCHANGED <<failures, testStartTimes, testPlanStartTime, collector, fs, wrVars,
                   notCallback>>

getTotalDuration == now - testPlanStartTime

\* The mutant of WriteOutcomes that returns without moving the temporary file.
WriteOutcomesNoMove(f, json) ==
    LET tempFile == TempFileOf(OutputPath)
        made == FsCreateDirectories(f, OutputPath)
        opened == FsOpenTruncate(made, tempFile)
    IN  {[fs |-> f, pc |-> "raised", flushed |-> 0],
         [fs |-> FsAppend(opened, tempFile, Serialize(json)), pc |-> "returned",
          flushed |-> Len(Serialize(json))]}

\* jsonWriter.write as one call: the file system it leaves and how it ends.
\* It raises IOException where createDirectories, the opening of the temporary
\* file, the serialisation or the move fails.
WriteOutcomes(f, json) ==
    LET toks == Serialize(json)
        tempFile == TempFileOf(OutputPath)
        made == FsCreateDirectories(f, OutputPath)
        opened == FsOpenTruncate(made, tempFile)
        closed == FsAppend(opened, tempFile, toks)
        moved == FsRename(closed, tempFile, OutputPath)
    IN  {[fs |-> f, pc |-> "raised", flushed |-> 0],
         [fs |-> made, pc |-> "raised", flushed |-> 0],
         [fs |-> opened, pc |-> "raised", flushed |-> 0],
         [fs |-> closed, pc |-> "raised", flushed |-> Len(toks)],
         [fs |-> FsUnlink(closed, OutputPath), pc |-> "raised", flushed |-> Len(toks)],
         [fs |-> moved, pc |-> "returned", flushed |-> Len(toks)]}

\* The mutant of testPlanExecutionFinished that writes the document before it
\* runs the detectors.
testPlanExecutionFinishedWriteFirst(detect, educational) ==
    /\ Running
    /\ lastCall' = "testPlanExecutionFinished"
    /\ IF EventReturns
       THEN /\ lastOutcome' = "returned"
            /\ UNCHANGED <<fs, wrVars>>
       ELSE LET json == TestJson(now, getTotalDuration, tests, failures, <<>>)
            IN  \E o \in WriteOutcomes(fs, json) :
                   /\ fs' = o.fs
                   /\ wPc' = o.pc
                   /\ wJson' = json
                   /\ wFlushed' = o.flushed
                   /\ prevOut' = fs[OutputPath]
                   /\ lastOutcome' = Ending(IF o.pc = "raised" THEN "exception" ELSE detect)
    /\ UNCHANGED <<collector, colVars, picked, notCallback>>

\* detect is what the detectors do: they return their feedback ("none"), or one
\* of them throws.
testPlanExecutionFinished(detect, educational) ==
    /\ Running
    /\ lastCall' = "testPlanExecutionFinished"
    /\ IF EventReturns
       THEN /\ lastOutcome' = "returned"
            /\ UNCHANGED <<fs, wrVars>>
       ELSE IF detect # "none"
       THEN /\ lastOutcome' = Ending(detect)
            /\ wPc' = "idle"
            /\ wJson' = NoJson
            /\ wFlushed' = 0
            /\ prevOut' = Absent
            /\ UNCHANGED fs
       ELSE LET json == TestJson(now, getTotalDuration, tests, failures, educational)
            IN  \E o \in WriteOutcomes(fs, json) :
                   /\ fs' = o.fs
                   /\ wPc' = o.pc
                   /\ wJson' = json
                   /\ wFlushed' = o.flushed
                   /\ prevOut' = fs[OutputPath]
                   /\ lastOutcome' = Ending(IF o.pc = "raised" THEN "exception" ELSE "none")
    /\ UNCHANGED <<collector, colVars, picked, notCallback>>

Faults == {"none", "error"}
Throwables == {"none", "exception", "error"}

\* The results the engine reports to the listener.
ListenerResults ==
    {ExecutionResult("SUCCESSFUL", None),
     ExecutionResult("FAILED", Some(Throwable(Some(<<"b", "a", "d">>))))}

\* A project root without the marker directory, and one an earlier run wrote to.
LsnInit ==
    Constructed({None, Some(<<"t", "r", "u", "e">>)},
                {EmptyFs, [p \in Paths |-> IF p \in {MarkerDir, DataDir} THEN Directory
                                          ELSE IF p = OutputPath THEN File(Serialize(PrevJson))
                                          ELSE Absent]})

LsnNext ==
    \/ \E fault \in Faults : testPlanExecutionStarted(fault)
    \/ \E arg \in Args, fault \in Faults : executionStarted(arg, fault)
    \/ \E arg \in Args, result \in ListenerResults, fault \in Faults :
          executionFinished(arg, result, fault)
    \/ \E arg \in Args, fault \in Faults : executionSkipped(arg, fault)
    \/ \E detect \in Throwables, educational \in FeedbackLists :
          testPlanExecutionFinished(detect, educational)

SpecListener == LsnInit /\ [][LsnNext]_vars

(***************************************************************************)
(* The launcher executes a second test plan with the same listener.  The   *)
(* model follows it after a plan that wrote the first document under the   *)
(* project root and recorded fewer outcomes than the plan has tests.       *)
(***************************************************************************)
\* Launcher.execute is called again: the engine will report the identifiers
\* of the plan anew, beginning with the run-start.
ExecuteAgain ==
    /\ ~Running
    /\ wPc = "returned"
    /\ prevOut = Absent
    /\ Len(tests) < NumTests
    /\ lastCall' = "execute"
    /\ picked' = {}
    /\ UNCHANGED <<lastOutcome, collector, colVars, fs, wrVars, notCallback>>

\* The callbacks of a plan whose events and detectors do not fail; the creation
\* of the collector may.
RunsNext ==
    \/ \E fault \in Faults : testPlanExecutionStarted(fault)
    \/ \E arg \in AllIds : executionStarted(arg, "none")
    \/ \E arg \in AllIds, result \in ListenerResults : executionFinished(arg, result, "none")
    \/ \E arg \in AllIds : executionSkipped(arg, "none")
    \/ testPlanExecutionFinished("none", <<>>)
    \/ ExecuteAgain

SpecRuns == LsnInit /\ [][RunsNext]_vars

(***************************************************************************)
(* testPlanExecutionFinished line by line, on the thread that delivers it, *)
(* while the worker threads go on recording into the same collector.  Its  *)
(* locals are tcur[Main]; input is the TestJson handed to the detectors.   *)
(***************************************************************************)
Main == "main"

NoRun == [tests |-> <<>>, failures |-> <<>>, summary |-> TestSummary(0, 0, 0, 0),
          educational |-> <<>>, writeTests |-> <<>>, writeFailures |-> <<>>]

\* The listener is enabled and its run-start has created the collector.
RunInit ==
    /\ ResIdle
    /\ WrIdle
    /\ fs = EmptyFs
    /\ now = 0
    /\ srcFiles = CollectorSources
    /\ tests = <<>>
    /\ failures = <<>>
    /\ testStartTimes = NoStartTimes
    /\ testPlanStartTime = 0
    /\ tpc = [t \in Threads \cup {Main} |-> "idle"]
    /\ tcur = [t \in Threads \cup {Main} |-> IF t = Main THEN NoRun ELSE NoCall]
    /\ picked = {}
    /\ returned = {}
    /\ envEnabled = Some(<<"t", "r", "u", "e">>)
    /\ enabled = detectTddGuard(envEnabled, fs)
    /\ collector = ACollector
    /\ ctorEnv = envEnabled
    /\ ctorMarker = FilesExists(fs, MarkerDir)
    /\ lastCall = "testPlanExecutionStarted"
    /\ lastOutcome = "returned"
    /\ NoFunction

notRunFinish == <<resVars, now, srcFiles, colVars, picked, returned, envEnabled, enabled,
                  collector, ctorEnv, ctorMarker>>

\* What a line of the callback that only assigns a local leaves alone.
notRunLine == <<fs, wrVars, lastCall, lastOutcome, fnVars, notRunFinish>>

\* testJson.tests = collector.getTests();
ReadTests ==
    /\ tpc[Main] = "idle"
    /\ tpc' = [tpc EXCEPT ![Main] = "failures"]
    /\ tcur' = [tcur EXCEPT ![Main].tests = getTests]
    /\ UNCHANGED notRunLine

\* testJson.failures = collector.getFailures();
ReadFailures ==
    /\ tpc[Main] = "failures"
    /\ tpc' = [tpc EXCEPT ![Main] = "summary"]
    /\ tcur' = [tcur EXCEPT ![Main].failures = getFailures]
    /\ UNCHANGED notRunLine

\* testJson.summary = calculateSummary(collector.getTests());
ReadSummary ==
    /\ tpc[Main] = "summary"
    /\ tpc' = [tpc EXCEPT ![Main] = "detect"]
    /\ tcur' = [tcur EXCEPT ![Main].summary = calculateSummary(getTests)]
    /\ UNCHANGED notRunLine

\* BuildMetrics.collect and the loop over the detectors: they get testJson and
\* return their feedback, or one of them throws and the callback ends.
RunDetectors(detect, educational) ==
    /\ tpc[Main] = "detect"
    /\ input' = Some([tests |-> tcur[Main].tests, failures |-> tcur[Main].failures,
                      summary |-> tcur[Main].summary])
    /\ IF detect = "none"
       THEN /\ tpc' = [tpc EXCEPT ![Main] = "writeTests"]
            /\ tcur' = [tcur EXCEPT ![Main].educational = educational]
            /\ UNCHANGED <<lastCall, lastOutcome>>
       ELSE /\ tpc' = [tpc EXCEPT ![Main] = "done"]
            /\ lastCall' = "testPlanExecutionFinished"
            /\ lastOutcome' = Ending(detect)
            /\ UNCHANGED tcur
    /\ UNCHANGED <<fs, wrVars, output, notRunFinish>>

\* jsonWriter.write(outputPath, collector.getTests(),
RereadTests ==
    /\ tpc[Main] = "writeTests"
    /\ tpc' = [tpc EXCEPT ![Main] = "writeFailures"]
    /\ tcur' = [tcur EXCEPT ![Main].writeTests = getTests]
    /\ UNCHANGED notRunLine

\*                  collector.getFailures(),
RereadFailures ==
    /\ tpc[Main] = "writeFailures"
    /\ tpc' = [tpc EXCEPT ![Main] = "write"]
    /\ tcur' = [tcur EXCEPT ![Main].writeFailures = getFailures]
    /\ UNCHANGED notRunLine

\*                  collector.getTotalDuration(), educational);
RunWrite ==
    /\ tpc[Main] = "write"
    /\ LET json == TestJson(now, getTotalDuration, tcur[Main].writeTests,
                            tcur[Main].writeFailures, tcur[Main].educational)
       IN  \E o \in WriteOutcomes(fs, json) :
              /\ fs' = o.fs
              /\ wPc' = o.pc
              /\ wJson' = json
              /\ wFlushed' = o.flushed
              /\ prevOut' = fs[OutputPath]
              /\ lastOutcome' = Ending(IF o.pc = "raised" THEN "exception" ELSE "none")
    /\ lastCall' = "testPlanExecutionFinished"
    /\ tpc' = [tpc EXCEPT ![Main] = "done"]
    /\ UNCHANGED <<tcur, fnVars, notRunFinish>>

RunNext ==
    \/ ColNext
    \/ ReadTests
    \/ ReadFailures
    \/ ReadSummary
    \/ \E detect \in Throwables, educational \in FeedbackLists : RunDetectors(detect, educational)
    \/ RereadTests
    \/ RereadFailures
    \/ RunWrite

SpecRunFinish == RunInit /\ [][RunNext]_vars

(***************************************************************************)
(* Two calls of TestJsonWriter.write for the same output path at the same  *)
(* time, from two threads or two processes.  tpc and tcur hold where each  *)
(* call is and its locals: the TestJson, the tokens its buffered writer    *)
(* has flushed, and the path at which the file it has open is now linked.  *)
(* No call fails for a reason of its own (a full disk, a missing           *)
(* permission); the platform renames over the target.                      *)
(***************************************************************************)
Writers == {"a", "b"}

\* The documents of the two runs: one outcome, and two outcomes and a failure.
WriterDocuments ==
    {TestJson(1, 0, <<SampleTestCase(1, Passed)>>, <<>>, <<>>),
     TestJson(1, 1, <<SampleTestCase(1, Failed), SampleTestCase(2, Passed)>>,
              <<SampleFailure(1)>>, <<>>)}

NoWrite == [json |-> NoJson, flushed |-> 0, file |-> ""]

\* Bytes of a file that no write has reached.
Hole == [n |-> 0, s |-> <<>>, k |-> "hole", key |-> ""]

\* write(2) at the offset of the descriptor.
FsWriteAt(f, path, offset, toks) ==
    LET old == f[path].content
        padded == IF offset > Len(old)
                  THEN old \o [i \in 1..(offset - Len(old)) |-> Hole]
                  ELSE old
    IN  [f EXCEPT ![path] = File(SubSeq(padded, 1, offset) \o toks
                                   \o SubSeq(padded, offset + Len(toks) + 1, Len(padded)))]

WritersInit ==
    /\ WrIdle
    /\ ResIdle
    /\ srcFiles = {}
    /\ tests = <<>> /\ failures = <<>> /\ testStartTimes = <<>> /\ testPlanStartTime = 0
    /\ tpc = [w \in Writers |-> "idle"]
    /\ tcur = [w \in Writers |-> NoWrite]
    /\ picked = {} /\ returned = {}
    /\ now = 1
    /\ fs \in WriterInitFs
    /\ NoListener
    /\ NoFunction

notWriters == <<wrVars, now, resVars, srcFiles, colVars, picked, returned, lsnVars, fnVars>>

\* The TestJson object is built and the parent directories are made.
WriterBegins(w, json) ==
    /\ tpc[w] = "idle"
    /\ tpc' = [tpc EXCEPT ![w] = "open"]
    /\ tcur' = [tcur EXCEPT ![w] = [NoWrite EXCEPT !.json = json]]
    /\ fs' = FsCreateDirectories(fs, OutputPath)
    /\ UNCHANGED notWriters

\* Files.newBufferedWriter(tempFile): the file at the temporary path is created,
\* or the one that is there is truncated.
WriterOpens(w) ==
    /\ tpc[w] = "open"
    /\ tpc' = [tpc EXCEPT ![w] = "serialize"]
    /\ tcur' = [tcur EXCEPT ![w].file = TempFileOf(OutputPath)]
    /\ fs' = FsOpenTruncate(fs, TempFileOf(OutputPath))
    /\ UNCHANGED notWriters

\* The buffered writer flushes its next tokens through its descriptor.  A file
\* that was unlinked takes them without any path showing them.
WriterFlushes(w) ==
    LET toks == Serialize(tcur[w].json)
        upTo == IF tcur[w].flushed + ChunkTokens < Len(toks)
                THEN tcur[w].flushed + ChunkTokens ELSE Len(toks)
    IN  /\ tpc[w] = "serialize"
        /\ tcur[w].flushed < Len(toks)
        /\ tcur' = [tcur EXCEPT ![w].flushed = upTo]
        /\ fs' = IF tcur[w].file = "" THEN fs
                 ELSE FsWriteAt(fs, tcur[w].file, tcur[w].flushed,
                                SubSeq(toks, tcur[w].flushed + 1, upTo))
        /\ UNCHANGED <<tpc, notWriters>>

\* The try-with-resources statement closes the writer.
WriterCloses(w) ==
    /\ tpc[w] = "serialize"
    /\ tcur[w].flushed = Len(Serialize(tcur[w].json))
    /\ tpc' = [tpc EXCEPT ![w] = "move"]
    /\ UNCHANGED <<tcur, fs, notWriters>>

\* Files.move(tempFile, outputPath, REPLACE_EXISTING): the file at the temporary
\* path takes the output path, whoever has it open; the file that was at the
\* output path is unlinked.  NoSuchFileException when the temporary path is gone.
WriterMoves(w) ==
    /\ tpc[w] = "move"
    /\ IF fs[TempFileOf(OutputPath)].kind = "file"
       THEN /\ fs' = FsRename(fs, TempFileOf(OutputPath), OutputPath)
            /\ tpc' = [tpc EXCEPT ![w] = "returned"]
            /\ tcur' = [v \in Writers |->
                          [tcur[v] EXCEPT !.file =
                              IF @ = TempFileOf(OutputPath) THEN OutputPath
                              ELSE IF @ = OutputPath THEN "" ELSE @]]
       ELSE /\ tpc' = [tpc EXCEPT ![w] = "raised"]
            /\ UNCHANGED <<tcur, fs>>
    /\ UNCHANGED notWriters

WritersNext ==
    \/ \E w \in Writers, json \in WriterDocuments : WriterBegins(w, json)
    \/ \E w \in Writers : WriterOpens(w)
    \/ \E w \in Writers : WriterFlushes(w)
    \/ \E w \in Writers : WriterCloses(w)
    \/ \E w \in Writers : WriterMoves(w)

SpecWriters == WritersInit /\ [][WritersNext]_vars

\* The listener while its surroundings change: the environment variable and the
\* marker directory between the callbacks of runs without tests.
EnablementNext ==
    \/ \E v \in EnvValues : SetEnvironment(v)
    \/ CreateMarker
    \/ RemoveMarker
    \/ \E fault \in Faults : testPlanExecutionStarted(fault)
    \/ \E detect \in Throwables, educational \in FeedbackLists :
          testPlanExecutionFinished(detect, educational)

EnablementInit == Constructed(EnvValues, ListenerInitFs)

SpecEnablement == EnablementInit /\ [][EnablementNext]_vars

(***************************************************************************)
(* EducationalFeedback: the constructor, and a document with its result.   *)
(***************************************************************************)
VALID_SEVERITIES == {<<"i", "n", "f", "o">>, <<"w", "a", "r", "n", "i", "n", "g">>}

\* Each validation: TRUE when it lets the argument pass, FALSE when it throws
\* IllegalArgumentException.
validateCategory(category) == category # None /\ category[1] # <<>>

\* The mutant of validateSeverity that rejects null only.
validateSeverityNotNull(severity) == severity # None

validateSeverity(severity) == severity # None /\ severity[1] \in VALID_SEVERITIES

validateEvidence(evidence) == evidence # None

EducationalFeedback(category, severity, title, evidence, message, recommendation) ==
    IF validateCategory(category) /\ validateSeverity(severity) /\ validateEvidence(evidence)
    THEN Returned([category |-> category[1], severity |-> severity[1], title |-> title,
                   evidence |-> evidence[1], message |-> message,
                   recommendation |-> recommendation])
    ELSE Raised

\* The arguments constructors are called with.
FeedbackArgs ==
    [category : {None, Some(<<>>), Some(<<"c">>)},
     severity : {None, Some(<<>>), Some(<<"i", "n", "f", "o">>),
                 Some(<<"w", "a", "r", "n", "i", "n", "g">>), Some(<<"I", "N", "F", "O">>),
                 Some(<<"e", "r", "r", "o", "r">>)},
     title : {<<>>, <<"T">>},
     evidence : {None, Some(<<>>), Some(<<[key |-> "count", val |-> 1]>>)},
     message : {<<"M">>},
     recommendation : {<<"R">>}]

FeedbackInit ==
    /\ ResIdle
    /\ WrIdle
    /\ now = 1
    /\ fs = EmptyFs
    /\ srcFiles = {}
    /\ tests = <<>> /\ failures = <<>> /\ testStartTimes = <<>> /\ testPlanStartTime = 0
    /\ tpc = <<>> /\ tcur = <<>> /\ picked = {} /\ returned = {}
    /\ NoListener
    /\ input \in {Some(a) : a \in FeedbackArgs}
    /\ output = None

NewFeedback ==
    /\ output = None
    /\ output' = Some(EducationalFeedback(input[1].category, input[1].severity, input[1].title,
                                          input[1].evidence, input[1].message,
                                          input[1].recommendation))
    /\ UNCHANGED <<input, resVars, now, fs, wrVars, srcFiles, colVars, thrVars, lsnVars>>

\* The feedback is handed to the writer in a document without tests.
PersistFeedback ==
    /\ output # None
    /\ ~output[1].raised
    /\ wPc = "idle"
    /\ LET json == TestJson(now, 0, <<>>, <<>>, <<output[1].value>>)
       IN  \E o \in WriteOutcomes(fs, json) :
              /\ fs' = o.fs
              /\ wPc' = o.pc
              /\ wJson' = json
              /\ wFlushed' = o.flushed
              /\ prevOut' = fs[OutputPath]
    /\ UNCHANGED <<fnVars, resVars, now, srcFiles, colVars, thrVars, lsnVars>>

FeedbackNext ==
    \/ NewFeedback
    \/ PersistFeedback

SpecFeedback == FeedbackInit /\ [][FeedbackNext]_vars

(***************************************************************************)
(* The pattern detectors, each as one call of detect.  Optional.empty() is *)
(* None and Optional.of(feedback) is Some(feedback).  Quotients of doubles *)
(* are kept as fractions; a division by 0.0 gives NaN or an infinity.      *)
(***************************************************************************)
\* What the other variables are while one detector is called.
DetectorIdle ==
    /\ ResIdle
    /\ WrIdle
    /\ now = 1
    /\ fs = EmptyFs
    /\ srcFiles = {}
    /\ tests = <<>> /\ failures = <<>> /\ testStartTimes = <<>> /\ testPlanStartTime = 0
    /\ tpc = <<>> /\ tcur = <<>> /\ picked = {} /\ returned = {}
    /\ NoListener

notDetector == <<resVars, now, fs, wrVars, srcFiles, colVars, thrVars, lsnVars>>

RECURSIVE SumOf(_)
SumOf(times) == IF times = <<>> THEN 0 ELSE Head(times) + SumOf(Tail(times))

AbsOf(x) == IF x < 0 THEN 0 - x ELSE x

MaxOf(S) == CHOOSE x \in S : \A y \in S : y <= x

(***************************************************************************)
(* GradleBuildOptimizationDetector.                                        *)
(***************************************************************************)
VARIANCE_THRESHOLD == 20
MINIMUM_BUILD_HISTORY == 3

\* calculateVariancePercent(times, avg) with avg = sum / size: the double
\* (maxDeviation / avg) * 100.0 as the fraction num / den, or what IEEE 754
\* gives for a zero average: 0.0 / 0.0 is NaN, a positive deviation / 0.0 is
\* +Infinity.
calculateVariancePercent(times) ==
    LET size == Len(times)
        sum == SumOf(times)
        scaledDeviation == MaxOf({AbsOf(size * times[i] - sum) : i \in 1..size})
    IN  IF sum = 0
        THEN IF scaledDeviation = 0 THEN [kind |-> "NaN", num |-> 0, den |-> 1]
             ELSE [kind |-> "Infinity", num |-> 0, den |-> 1]
        ELSE [kind |-> "finite", num |-> 100 * scaledDeviation, den |-> sum]

\* variance <= VARIANCE_THRESHOLD, for a positive denominator; every comparison
\* with NaN is false.
AtMostThreshold(variance) ==
    /\ variance.kind = "finite"
    /\ variance.num <= VARIANCE_THRESHOLD * variance.den

\* The category literals of the two detectors with the longest names.
GradleCategory ==
    <<"g", "r", "a", "d", "l", "e", "-", "i", "n", "c", "r", "e", "m", "e", "n", "t",
      "a", "l", "-", "c", "o", "m", "p", "i", "l", "a", "t", "i", "o", "n">>

FixturesCategory ==
    <<"t", "e", "s", "t", "-", "f", "i", "x", "t", "u", "r", "e", "s", "-", "o", "p",
      "p", "o", "r", "t", "u", "n", "i", "t", "y">>

GradleFeedback(buildTimes) ==
    EducationalFeedback(Some(GradleCategory), Some(<<"i", "n", "f", "o">>),
                        <<"T">>, Some(<<[key |-> "builds", val |-> Len(buildTimes)]>>),
                        <<"M">>, <<"R">>).value

GradleBuildOptimizationDetector_detect(buildTimes) ==
    IF Len(buildTimes) < MINIMUM_BUILD_HISTORY THEN None
    ELSE IF AtMostThreshold(calculateVariancePercent(buildTimes)) THEN None
    ELSE Some(GradleFeedback(buildTimes))

\* The build times a history holds, in milliseconds.
BuildTimes == {0, 1000, 1050, 1500}

BuildHistories == UNION {[1..n -> BuildTimes] : n \in 0..MaxHistory}

BuildVarianceInit ==
    /\ DetectorIdle
    /\ input \in {Some(h) : h \in BuildHistories}
    /\ output = None

DetectBuildVariance ==
    /\ output = None
    /\ output' = Some(Returned(GradleBuildOptimizationDetector_detect(input[1])))
    /\ UNCHANGED <<input, notDetector>>

BuildVarianceNext == DetectBuildVariance

SpecBuildVariance == BuildVarianceInit /\ [][BuildVarianceNext]_vars

(***************************************************************************)
(* The project tree the detectors walk.  A tree is what Files.walk gives:  *)
(* the entries in the order of the walk, and whether the walk fails when   *)
(* the root is opened ("open", an IOException thrown by Files.walk) or     *)
(* later, while the stream is consumed ("traverse", an                     *)
(* UncheckedIOException thrown by the terminal operation).  An entry is a  *)
(* path with what the detectors read of it.                                *)
(***************************************************************************)
Entry(path, regular, readable, mocks, calls) ==
    [path |-> path, regular |-> regular, readable |-> readable,
     mocks |-> mocks, calls |-> calls, pkg |-> None, annotated |-> FALSE]

\* A source file with its package declaration, if it has one, and whether
\* its content holds a @Test annotation.
SourceEntry(path, readable, pkg, annotated) ==
    [Entry(path, TRUE, readable, <<>>, <<>>) EXCEPT !.pkg = pkg, !.annotated = annotated]

Tree(walk, entries) == [walk |-> walk, entries |-> entries]

\* str.contains(sub)
Contains(str, sub) ==
    \E i \in 1..(Len(str) - Len(sub) + 1) : SubSeq(str, i, i + Len(sub) - 1) = sub

DotKt == <<".", "k", "t">>
SrcTest == <<"s", "r", "c", "/", "t", "e", "s", "t">>
SrcMain == <<"s", "r", "c", "/", "m", "a", "i", "n">>
JavaDir == <<"/", "j", "a", "v", "a">>
KotlinDir == <<"/", "k", "o", "t", "l", "i", "n">>
BuildDir == <<"/", "b", "u", "i", "l", "d", "/">>
TargetDir == <<"/", "t", "a", "r", "g", "e", "t", "/">>

\* The path of the project root.
ProjectRoot == <<"/", "r">>

\* projectRoot.resolve(relative)
UnderRoot(relative) == ProjectRoot \o <<"/">> \o relative

\* projectRoot.relativize(path), for a path under the root.
Relativize(path) == SubSeq(path, Len(ProjectRoot) + 2, Len(path))

Range(items) == {items[i] : i \in 1..Len(items)}

RECURSIVE Filter(_, _)
Filter(items, keep) ==
    IF items = <<>> THEN <<>>
    ELSE (IF Head(items) \in keep THEN <<Head(items)>> ELSE <<>>) \o Filter(Tail(items), keep)

\* The first three filters every walk of the detectors applies, and the two
\* that exclude the build output.
IsSourceFile(e) ==
    /\ e.regular
    /\ (EndsWith(e.path, DotJava) \/ EndsWith(e.path, DotKt))

OutsideBuildOutput(e) ==
    /\ ~Contains(e.path, BuildDir)
    /\ ~Contains(e.path, TargetDir)

(***************************************************************************)
(* SourceAnalyzer.                                                         *)
(***************************************************************************)
DEFAULT_TEST_DIRS == <<SrcTest \o JavaDir, SrcTest \o KotlinDir, SrcTest>>

isInTestDirectory(path, testDirs) ==
    \E i \in 1..Len(testDirs) :
       \/ Contains(path, <<"/">> \o testDirs[i] \o <<"/">>)
       \/ Contains(path, <<"/">> \o testDirs[i])

\* What the walk does of a tree, given the entries the filters keep.
Walked(tree, kept) ==
    IF tree.walk = "open" THEN Returned(<<>>)
    ELSE IF tree.walk = "traverse" THEN Raised
    ELSE Returned(Filter(tree.entries, kept))

\* findTestFiles of the analyzer that is given the directory resolver.
findTestFiles(tree) ==
    LET configured == resolveTestSourceDirs
        testDirs == IF configured = <<>> THEN DEFAULT_TEST_DIRS ELSE configured
    IN  Walked(tree, {e \in Range(tree.entries) :
                         /\ IsSourceFile(e)
                         /\ isInTestDirectory(e.path, testDirs)
                         /\ OutsideBuildOutput(e)})

\* The static findTestFiles, which looks under /src/test/ only.
findTestFilesStatic(tree) ==
    Walked(tree, {e \in Range(tree.entries) :
                     /\ IsSourceFile(e)
                     /\ Contains(e.path, <<"/">> \o SrcTest \o <<"/">>)
                     /\ OutsideBuildOutput(e)})

\* The entries of the walked trees: test sources, a directory, a production
\* source, a copy in the build output, a file of a configured directory and
\* a file that is no source.
TestJavaFile(name) == UnderRoot(SrcTest \o JavaDir \o <<"/">> \o name \o DotJava)

PlainEntry(path, regular) == Entry(path, regular, TRUE, <<>>, <<>>)

WalkEntries ==
    {PlainEntry(TestJavaFile(<<"A">>), TRUE),
     PlainEntry(UnderRoot(SrcTest \o KotlinDir \o <<"/", "B">> \o DotKt), TRUE),
     PlainEntry(UnderRoot(SrcTest \o JavaDir), FALSE),
     PlainEntry(UnderRoot(SrcMain \o JavaDir \o <<"/", "C">> \o DotJava), TRUE),
     PlainEntry(UnderRoot(<<"b", "u", "i", "l", "d", "/">> \o SrcTest \o <<"/", "A">> \o DotJava), TRUE),
     PlainEntry(UnderRoot(<<"a", "/", "D">> \o DotJava), TRUE),
     PlainEntry(UnderRoot(SrcTest \o <<"/", "n", "o", "t", "e", "s">>), TRUE)}

SeqsUpTo(S, n) == UNION {[1..k -> S] : k \in 0..n}

WalkTrees ==
    {Tree(walk, entries) : walk \in {"ok", "open", "traverse"},
                           entries \in SeqsUpTo(WalkEntries, MaxEntries)}

\* The test directories are configured by the system property or not at all.
WalkConfigValues == {None, Some(<<"a">>)}

FindInit ==
    /\ \E s \in WalkConfigValues :
          sysProps = [n \in SysPropNames |-> IF n = TestSysProp THEN s ELSE None]
    /\ envVars = [n \in EnvVarNames |-> None]
    /\ lastKind = "none"
    /\ resolved = <<>>
    /\ candidates = <<>>
    /\ WrIdle
    /\ now = 1
    /\ fs = EmptyFs
    /\ srcFiles = {}
    /\ tests = <<>> /\ failures = <<>> /\ testStartTimes = <<>> /\ testPlanStartTime = 0
    /\ tpc = <<>> /\ tcur = <<>> /\ picked = {} /\ returned = {}
    /\ NoListener
    /\ input \in {Some(tree) : tree \in WalkTrees}
    /\ output = None

FindTestFiles ==
    /\ output = None
    /\ output' = Some(findTestFiles(input[1]))
    /\ UNCHANGED <<input, notDetector>>

FindTestFilesStatic ==
    /\ output = None
    /\ output' = Some(findTestFilesStatic(input[1]))
    /\ UNCHANGED <<input, notDetector>>

FindNext == FindTestFiles \/ FindTestFilesStatic

SpecFind == FindInit /\ [][FindNext]_vars

(***************************************************************************)
(* MockOveruseDetector.  The content of a test file is the sequence of its *)
(* mock declarations: what introduces each ("@Mock", "@MockBean" or a call *)
(* of mock(...)) and the type name the extraction patterns capture.        *)
(***************************************************************************)
MOCK_RATIO_THRESHOLD == 2

MockDecl(kind, type) == [kind |-> kind, type |-> type]

\* countMatches(pattern, content), for the pattern that finds the given kind.
countMatches(kind, content) == Cardinality({i \in 1..Len(content) : content[i].kind = kind})

\* extractMockedTypes(content): the types of the fields, then those of the calls.
extractMockedTypes(content) ==
    LET fields == Filter(content, {d \in Range(content) : d.kind \in {"@Mock", "@MockBean"}})
        calls  == Filter(content, {d \in Range(content) : d.kind = "mock("})
        both   == fields \o calls
    IN  [i \in 1..Len(both) |-> both[i].type]

UpperLetters ==
    {"A", "B", "C", "D", "E", "F", "G", "H", "I", "J", "K", "L", "M",
     "N", "O", "P", "Q", "R", "S", "T", "U", "V", "W", "X", "Y", "Z"}
LowerLetters ==
    {"a", "b", "c", "d", "e", "f", "g", "h", "i", "j", "k", "l", "m",
     "n", "o", "p", "q", "r", "s", "t", "u", "v", "w", "x", "y", "z"}

isLikelyValueObject(typeName) ==
    \/ EndsWith(typeName, <<"I", "d">>)
    \/ EndsWith(typeName, <<"V", "a", "l", "u", "e">>)
    \/ typeName = <<"M", "o", "n", "e", "y">>
    \/ typeName = <<"A", "m", "o", "u", "n", "t">>
    \/ typeName = <<"E", "m", "a", "i", "l">>
    \/ typeName = <<"A", "d", "d", "r", "e", "s", "s">>
    \/ /\ Len(typeName) >= 2
       /\ typeName[1] \in UpperLetters
       /\ \A i \in 2..Len(typeName) : typeName[i] \in LowerLetters

\* The mutant of RatioAtMostThreshold that compares with < instead of <=.
RatioBelowThreshold(mockCount, testCount) ==
    IF testCount > 0 THEN mockCount < MOCK_RATIO_THRESHOLD * testCount
    ELSE mockCount > MOCK_RATIO_THRESHOLD * testCount

\* ratio <= MOCK_RATIO_THRESHOLD, for ratio = (double) mockCount / testCount
\* and testCount not 0.
RatioAtMostThreshold(mockCount, testCount) ==
    IF testCount > 0 THEN mockCount <= MOCK_RATIO_THRESHOLD * testCount
    ELSE mockCount >= MOCK_RATIO_THRESHOLD * testCount

\* The files of the list whose content Files.readString gives.
ReadableOf(testFiles) == Filter(testFiles, {e \in Range(testFiles) : e.readable})

MockFeedback(mockCount, testCount, exampleFile) ==
    EducationalFeedback(Some(<<"m", "o", "c", "k", "-", "o", "v", "e", "r", "u", "s", "e">>),
                        Some(<<"w", "a", "r", "n", "i", "n", "g">>), <<"T">>,
                        Some(<<[key |-> "mockCount", val |-> mockCount],
                               [key |-> "testCount", val |-> testCount],
                               [key |-> "exampleFile", val |-> exampleFile]>>),
                        <<"M">>, <<"R">>).value

MockOveruseDetector_detect(tree, total) ==
    LET found == findTestFiles(tree)
    IN  IF found.raised THEN Raised
        ELSE
          LET read == ReadableOf(found.value)
              mockCount ==
                  SumOf([i \in 1..Len(read) |->
                            countMatches("@Mock", read[i].mocks)
                              + countMatches("@MockBean", read[i].mocks)
                              + countMatches("mock(", read[i].mocks)])
              withValueObject ==
                  {i \in 1..Len(read) :
                      \E j \in 1..Len(read[i].mocks) :
                         isLikelyValueObject(extractMockedTypes(read[i].mocks)[j])}
              valueObjectMocks ==
                  {t \in UNION {Range(extractMockedTypes(read[i].mocks)) : i \in 1..Len(read)} :
                      isLikelyValueObject(t)}
              exampleFile ==
                  IF withValueObject = {} THEN None
                  ELSE Some(Relativize(read[CHOOSE i \in withValueObject :
                                                \A j \in withValueObject : i <= j].path))
              testCount == total
          IN  IF testCount = 0 THEN Returned(None)
              ELSE IF RatioAtMostThreshold(mockCount, testCount) /\ valueObjectMocks = {}
                   THEN Returned(None)
              ELSE Returned(Some(MockFeedback(mockCount, testCount, exampleFile)))

\* The declarations of the walked test files: a field of a repository type
\* and a bean of a type named like a value object.
OrderRepo == <<"O", "r", "d", "e", "r", "R", "e", "p", "o">>
UserId == <<"U", "s", "e", "r", "I", "d">>

MockDecls == {MockDecl("@Mock", OrderRepo), MockDecl("@MockBean", UserId)}

ThreeCalls == [i \in 1..3 |-> MockDecl("mock(", OrderRepo)]

\* What the i-th walked file may be: a readable test source with some
\* declarations or with three mock(...) calls, a test source that cannot be
\* read, or a copy in the build output.
FileNames == <<"A", "B", "C", "D">>

MockFilesAt(i) ==
    {Entry(TestJavaFile(<<FileNames[i]>>), TRUE, TRUE, mocks, <<>>) :
        mocks \in SeqsUpTo(MockDecls, MaxMocks) \cup {ThreeCalls}}
      \cup {Entry(TestJavaFile(<<FileNames[i]>>), TRUE, FALSE, ThreeCalls, <<>>),
            Entry(UnderRoot(<<"b", "u", "i", "l", "d", "/">> \o SrcTest \o <<"/", FileNames[i]>> \o DotJava),
                  TRUE, TRUE, ThreeCalls, <<>>)}

\* The walks of exactly k files, and the trees of up to MaxEntries files.
RECURSIVE MockWalks(_)
MockWalks(k) ==
    IF k = 0 THEN {<<>>}
    ELSE {Append(entries, file) : entries \in MockWalks(k - 1), file \in MockFilesAt(k)}

MockTrees ==
    {Tree("open", <<>>), Tree("traverse", <<>>)}
      \cup {Tree("ok", entries) : entries \in UNION {MockWalks(k) : k \in 0..MaxEntries}}

MockInit ==
    /\ DetectorIdle
    /\ input \in {Some([tree |-> tree, total |-> total]) :
                     tree \in MockTrees, total \in 0..MaxTests}
    /\ output = None

DetectMockOveruse ==
    /\ output = None
    /\ output' = Some(MockOveruseDetector_detect(input[1].tree, input[1].total))
    /\ UNCHANGED <<input, notDetector>>

MockNext == DetectMockOveruse

SpecMockOveruse == MockInit /\ [][MockNext]_vars

(***************************************************************************)
(* TestFixturesOpportunityDetector.  The content of a test file is the     *)
(* sequence of its constructor invocations, each the text that follows     *)
(* "new Type", from the opening parenthesis to the end of the expression.  *)
(***************************************************************************)
COMPILATION_TIME_THRESHOLD_MS == 2000
DEPENDENCY_DEPTH_THRESHOLD == 3

\* The positions of a character in a text.
IndexesOf(text, c) == {i \in 1..Len(text) : text[i] = c}

\* What CONSTRUCTOR_PATTERN matches of an invocation: \([^)]*\) ends at the
\* first closing parenthesis.
MatchedCall(text) ==
    IF IndexesOf(text, ")") = {} THEN None
    ELSE Some(SubSeq(text, 1, Least(IndexesOf(text, ")"))))

extractParameters(constructorCall) ==
    LET opens == IndexesOf(constructorCall, "(")
        closes == IndexesOf(constructorCall, ")")
    IN  IF opens = {} \/ closes = {} THEN <<>>
        ELSE Trim(SubSeq(constructorCall, Least(opens) + 1, Greatest(closes) - 1))

\* The loop of countParameters: the count and the depth after each character.
RECURSIVE CountLoop(_, _, _)
CountLoop(params, count, depth) ==
    IF params = <<>> THEN count
    ELSE IF Head(params) = "(" THEN CountLoop(Tail(params), count, depth + 1)
    ELSE IF Head(params) = ")" THEN CountLoop(Tail(params), count, depth - 1)
    ELSE IF Head(params) = "," /\ depth = 0 THEN CountLoop(Tail(params), count + 1, depth)
    ELSE CountLoop(Tail(params), count, depth)

countParameters(params) == IF params = <<>> THEN 0 ELSE CountLoop(params, 1, 0)

analyzeConstructorComplexity(content) ==
    LET counts == {countParameters(extractParameters(MatchedCall(content[i])[1])) :
                      i \in {k \in 1..Len(content) :
                                /\ MatchedCall(content[k]) # None
                                /\ extractParameters(MatchedCall(content[k])[1]) # <<>>}}
    IN  IF counts = {} THEN 0 ELSE MaxOf(counts \cup {0})

\* avgDepth <= DEPENDENCY_DEPTH_THRESHOLD, avgDepth being the average of the
\* depths, or 0.0 when there is none.
DepthAtMostThreshold(depths) ==
    IF depths = <<>> THEN 0 <= DEPENDENCY_DEPTH_THRESHOLD
    ELSE SumOf(depths) <= DEPENDENCY_DEPTH_THRESHOLD * Len(depths)

FixturesFeedback(compilationMs) ==
    EducationalFeedback(Some(FixturesCategory),
                        Some(<<"i", "n", "f", "o">>), <<"T">>,
                        Some(<<[key |-> "compilationMs", val |-> compilationMs]>>),
                        <<"M">>, <<"R">>).value

TestFixturesOpportunityDetector_detect(tree, compilationMs) ==
    LET found == findTestFilesStatic(tree)
    IN  IF found.raised THEN Raised
        ELSE IF found.value = <<>> THEN Returned(None)
        ELSE
          LET read == ReadableOf(found.value)
              depths == [i \in 1..Len(read) |-> analyzeConstructorComplexity(read[i].calls)]
          IN  IF compilationMs <= COMPILATION_TIME_THRESHOLD_MS /\ DepthAtMostThreshold(depths)
              THEN Returned(None)
              ELSE Returned(Some(FixturesFeedback(compilationMs)))

\* The invocations of the walked test files: without arguments, with three
\* and with four, and one whose first argument is a call.
CallNone == <<"(", ")">>
CallOf3 == <<"(", "a", ",", " ", "b", ",", " ", "c", ")">>
CallOf4 == <<"(", "a", ",", " ", "b", ",", " ", "c", ",", " ", "d", ")">>
CallNested == <<"(", "f", "(", "a", ",", " ", "b", ")", ",", " ", "c", ")">>

CallTexts == {CallOf3, CallOf4}

FixtureFilesAt(i) ==
    {Entry(TestJavaFile(<<FileNames[i]>>), TRUE, TRUE, <<>>, calls) :
        calls \in SeqsUpTo(CallTexts, MaxCalls) \cup {<<CallNone>>, <<CallNested>>}}
      \cup {Entry(TestJavaFile(<<FileNames[i]>>), TRUE, FALSE, <<>>, <<CallOf4>>),
            Entry(UnderRoot(<<"b", "u", "i", "l", "d", "/">> \o SrcTest \o <<"/", FileNames[i]>> \o DotJava),
                  TRUE, TRUE, <<>>, <<CallOf4>>)}

RECURSIVE FixtureWalks(_)
FixtureWalks(k) ==
    IF k = 0 THEN {<<>>}
    ELSE {Append(entries, file) : entries \in FixtureWalks(k - 1), file \in FixtureFilesAt(k)}

FixtureTrees ==
    {Tree("open", <<>>), Tree("traverse", <<>>)}
      \cup {Tree("ok", entries) : entries \in UNION {FixtureWalks(k) : k \in 0..MaxEntries}}

\* The test compilation times of the build metrics, in milliseconds.
CompilationTimes == {0, 2000, 2001}

FixturesInit ==
    /\ DetectorIdle
    /\ input \in {Some([tree |-> tree, compilationMs |-> ms]) :
                     tree \in FixtureTrees, ms \in CompilationTimes}
    /\ output = None

DetectFixturesOpportunity ==
    /\ output = None
    /\ output' = Some(TestFixturesOpportunityDetector_detect(input[1].tree, input[1].compilationMs))
    /\ UNCHANGED <<input, notDetector>>

FixturesNext == DetectFixturesOpportunity

SpecFixtures == FixturesInit /\ [][FixturesNext]_vars

(***************************************************************************)
(* analyzeConstructorComplexity as one call on the content of a file.      *)
(***************************************************************************)
CallOf1 == <<"(", "a", ")">>
CallOf2 == <<"(", "a", ",", " ", "b", ")">>
CallBlank == <<"(", " ", ")">>

\* The invocation new S(new A(x, y), b, c, d), from its opening parenthesis.
CallNestedNew ==
    <<"(", "n", "e", "w", " ", "A", "(", "x", ",", " ", "y", ")", ",", " ", "b", ",", " ",
      "c", ",", " ", "d", ")">>

ContentTexts ==
    {CallNone, CallBlank, CallOf1, CallOf2, CallOf3, CallOf4, CallNested, CallNestedNew}

ComplexityInit ==
    /\ DetectorIdle
    /\ input \in {Some(content) : content \in SeqsUpTo(ContentTexts, MaxCalls)}
    /\ output = None

AnalyzeConstructorComplexity ==
    /\ output = None
    /\ output' = Some(analyzeConstructorComplexity(input[1]))
    /\ UNCHANGED <<input, notDetector>>

ComplexityNext == AnalyzeConstructorComplexity

SpecComplexity == ComplexityInit /\ [][ComplexityNext]_vars

(***************************************************************************)
(* FileStructureAnalyzer.                                                  *)
(***************************************************************************)
TestWord == <<"T", "e", "s", "t">>
SpecWord == <<"S", "p", "e", "c">>

\* path.getFileName().toString()
FileNameOf(path) ==
    IF IndexesOf(path, "/") = {} THEN path
    ELSE SubSeq(path, Greatest(IndexesOf(path, "/")) + 1, Len(path))

StartsWith(str, prefix) ==
    /\ Len(str) >= Len(prefix)
    /\ SubSeq(str, 1, Len(prefix)) = prefix

\* str.replace(sub, "")
RECURSIVE RemoveAll(_, _)
RemoveAll(str, sub) ==
    IF str = <<>> THEN <<>>
    ELSE IF StartsWith(str, sub) THEN RemoveAll(SubSeq(str, Len(sub) + 1, Len(str)), sub)
    ELSE <<Head(str)>> \o RemoveAll(Tail(str), sub)

\* str.replaceFirst("^" + prefix, "")
RemoveLeading(str, prefix) ==
    IF StartsWith(str, prefix) THEN SubSeq(str, Len(prefix) + 1, Len(str)) ELSE str

looksLikeTestFile(path) ==
    \/ Contains(FileNameOf(path), TestWord)
    \/ Contains(FileNameOf(path), SpecWord)

\* extractClassName(filename), null when the file is no source.
extractClassName(filename) ==
    IF EndsWith(filename, DotJava) THEN Some(SubSeq(filename, 1, Len(filename) - 5))
    ELSE IF EndsWith(filename, DotKt) THEN Some(SubSeq(filename, 1, Len(filename) - 3))
    ELSE None

InSrcMain(e) ==
    /\ IsSourceFile(e)
    /\ Contains(e.path, <<"/">> \o SrcMain \o <<"/">>)
    /\ OutsideBuildOutput(e)

RelativePaths(entries) == [i \in 1..Len(entries) |-> Relativize(entries[i].path)]

findTestsInProductionDirectory(tree) ==
    LET walked == Walked(tree, {e \in Range(tree.entries) :
                                   InSrcMain(e) /\ looksLikeTestFile(e.path)})
    IN  IF walked.raised THEN Raised ELSE Returned(RelativePaths(walked.value))

findTestFilesInTestDirectory(tree) == findTestFilesStatic(tree)

\* findProductionPackage(projectRoot, className): the package of the first
\* production source of that class name, if its content can be read and
\* declares one.
findProductionPackage(tree, className) ==
    LET walked == Walked(tree, {e \in Range(tree.entries) :
                                   /\ InSrcMain(e)
                                   /\ extractClassName(FileNameOf(e.path)) = Some(className)})
    IN  IF walked.raised THEN Raised
        ELSE IF walked.value = <<>> THEN Returned(None)
        ELSE IF ~walked.value[1].readable THEN Returned(None)
        ELSE Returned(walked.value[1].pkg)

\* Whether the loop of findPackageMismatches adds a mismatch for a test file.
IsPackageMismatch(tree, testFile) ==
    LET testPackage == testFile.pkg
        className == extractClassName(FileNameOf(testFile.path))
        expectedProductionClass == RemoveLeading(RemoveAll(className[1], TestWord), TestWord)
        productionPackage == findProductionPackage(tree, expectedProductionClass).value
    IN  /\ testFile.readable
        /\ testPackage # None
        /\ className # None
        /\ expectedProductionClass # className[1]
        /\ productionPackage # None
        /\ productionPackage # testPackage

findPackageMismatches(tree) ==
    LET found == findTestFilesInTestDirectory(tree)
    IN  IF found.raised THEN Raised
        ELSE Returned(RelativePaths(Filter(found.value,
                         {e \in Range(found.value) : IsPackageMismatch(tree, e)})))

IsNamingViolation(testFile) ==
    LET className == extractClassName(FileNameOf(testFile.path))
    IN  /\ testFile.readable
        /\ className # None
        /\ testFile.annotated
        /\ ~EndsWith(className[1], TestWord)
        /\ ~StartsWith(className[1], TestWord)

findNamingViolations(tree) ==
    LET found == findTestFilesInTestDirectory(tree)
    IN  IF found.raised THEN Raised
        ELSE Returned(RelativePaths(Filter(found.value,
                         {e \in Range(found.value) : IsNamingViolation(e)})))

createFeedback(testsInMain, packageMismatches, namingViolations) ==
    EducationalFeedback(Some(<<"f", "i", "l", "e", "-", "s", "t", "r", "u", "c", "t", "u", "r", "e">>),
                        Some(<<"w", "a", "r", "n", "i", "n", "g">>), <<"T">>,
                        Some(<<[key |-> "testsInMain", val |-> testsInMain],
                               [key |-> "packageMismatches", val |-> packageMismatches],
                               [key |-> "namingViolations", val |-> namingViolations]>>),
                        <<"M">>, <<"R">>).value

FileStructureAnalyzer_detect(tree, total) ==
    IF total = 0 THEN Returned(None)
    ELSE
      LET testsInMain == findTestsInProductionDirectory(tree)
          packageMismatches == findPackageMismatches(tree)
          namingViolations == findNamingViolations(tree)
      IN  IF testsInMain.raised \/ packageMismatches.raised \/ namingViolations.raised
          THEN Raised
          ELSE IF /\ testsInMain.value = <<>>
                  /\ packageMismatches.value = <<>>
                  /\ namingViolations.value = <<>>
               THEN Returned(None)
          ELSE Returned(Some(createFeedback(testsInMain.value, packageMismatches.value,
                                            namingViolations.value)))

\* The files of the walked projects, in the order of the walk: each is
\* absent or one of its variants.
PackageP == Some(<<"p">>)
PackageQ == Some(<<"q">>)

StructureFiles ==
    << {SourceEntry(UnderRoot(SrcMain \o JavaDir \o <<"/", "A">> \o TestWord \o DotJava),
                    TRUE, PackageP, FALSE)},
       {SourceEntry(UnderRoot(SrcMain \o KotlinDir \o <<"/", "A">> \o SpecWord \o DotKt),
                    TRUE, PackageP, FALSE)},
       {SourceEntry(UnderRoot(SrcMain \o JavaDir \o <<"/", "A">> \o DotJava), TRUE, pkg, FALSE) :
           pkg \in {PackageP, PackageQ}},
       {SourceEntry(UnderRoot(SrcTest \o JavaDir \o <<"/", "A">> \o TestWord \o DotJava),
                    TRUE, PackageP, TRUE)},
       {SourceEntry(UnderRoot(SrcTest \o JavaDir \o <<"/", "B">> \o DotJava), TRUE, PackageP, TRUE)},
       {SourceEntry(UnderRoot(<<"b", "u", "i", "l", "d", "/">> \o SrcMain \o <<"/", "A">>
                                 \o TestWord \o DotJava), TRUE, PackageP, FALSE)} >>

RECURSIVE StructureWalks(_)
StructureWalks(k) ==
    IF k = 0 THEN {<<>>}
    ELSE LET before == StructureWalks(k - 1)
         IN  before \cup {Append(entries, file) : entries \in before, file \in StructureFiles[k]}

StructureTrees ==
    {Tree("open", <<>>), Tree("traverse", <<>>)}
      \cup {Tree("ok", entries) : entries \in StructureWalks(Len(StructureFiles))}

StructureInit ==
    /\ DetectorIdle
    /\ input \in {Some([tree |-> tree, total |-> total]) :
                     tree \in StructureTrees, total \in 0..MaxTests}
    /\ output = None

DetectFileStructure ==
    /\ output = None
    /\ output' = Some(FileStructureAnalyzer_detect(input[1].tree, input[1].total))
    /\ UNCHANGED <<input, notDetector>>

StructureNext == DetectFileStructure

SpecStructure == StructureInit /\ [][StructureNext]_vars

(***************************************************************************)
(* MissingIsolationDetector: the hardcoded ports.  The content of a test   *)
(* file is the sequence of its bare numeric tokens, each a run of decimal  *)
(* digits between two word boundaries.                                     *)
(***************************************************************************)
DecimalDigits == <<"0", "1", "2", "3", "4", "5", "6", "7", "8", "9">>

DigitValue(d) == CHOOSE v \in 0..9 : DecimalDigits[v + 1] = d

\* Integer.parseInt of a run of at most five digits.
RECURSIVE parseInt(_)
parseInt(digits) ==
    IF digits = <<>> THEN 0
    ELSE parseInt(SubSeq(digits, 1, Len(digits) - 1)) * 10 + DigitValue(digits[Len(digits)])

\* \b([0-9]{4,5})\b finds a token of four or five digits.
PORT_PATTERN(token) == Len(token) \in 4..5

\* port >= 1024 && port <= 65535 && port < 2100
IsReportedPort(port) == port >= 1024 /\ port <= 65535 /\ port < 2100

\* new HardcodedResource("Port", String.valueOf(port), relativePath): the value
\* is held as the number whose decimal form it is.
HardcodedResource(type, value) == [type |-> type, value |-> value]

\* The HardcodedResources added for the ports of a content.
HardcodedPorts(content) ==
    LET found == Filter(content, {token \in Range(content) :
                                     PORT_PATTERN(token) /\ IsReportedPort(parseInt(token))})
    IN  [i \in 1..Len(found) |-> HardcodedResource("Port", parseInt(found[i]))]

PortTokens ==
    {<<"8", "0">>, <<"1", "0", "2", "3">>, <<"1", "0", "2", "4">>, <<"1", "9", "9", "9">>,
     <<"2", "0", "2", "4">>, <<"2", "0", "9", "9">>, <<"2", "1", "0", "0">>,
     <<"8", "0", "8", "0">>, <<"0", "1", "9", "9", "9">>, <<"6", "5", "5", "3", "5">>,
     <<"6", "5", "5", "3", "6">>, <<"1", "2", "3", "4", "5", "6">>}

PortsInit ==
    /\ DetectorIdle
    /\ input \in {Some(content) : content \in SeqsUpTo(PortTokens, MaxCalls)}
    /\ output = None

DetectHardcodedPorts ==
    /\ output = None
    /\ output' = Some(HardcodedPorts(input[1]))
    /\ UNCHANGED <<input, notDetector>>

PortsNext == DetectHardcodedPorts

SpecPorts == PortsInit /\ [][PortsNext]_vars

(***************************************************************************)
(* The detectors of the listener and the loop of testPlanExecutionFinished *)
(* over them.  input is what the loop hands to every detector: the         *)
(* TestJson of the run, the build metrics and the project root, that is    *)
(* the tree under it and the numeric tokens of its readable test files.    *)
(* output is the list the loop has built so far.                           *)
(***************************************************************************)
\* The mutant of patternDetectors that registers the first detector twice.
patternDetectorsTwice ==
    <<"MockOveruseDetector", "MockOveruseDetector", "MissingIsolationDetector",
      "GradleBuildOptimizationDetector", "FileStructureAnalyzer">>

\* this.patternDetectors = List.of(...)
patternDetectors ==
    <<"MockOveruseDetector", "TestFixturesOpportunityDetector", "MissingIsolationDetector",
      "GradleBuildOptimizationDetector", "FileStructureAnalyzer">>

\* public String getCategory() of each detector.
getCategory(detector) ==
    CASE detector = "MockOveruseDetector" ->
             <<"m", "o", "c", "k", "-", "o", "v", "e", "r", "u", "s", "e">>
      [] detector = "TestFixturesOpportunityDetector" ->
             <<"t", "e", "s", "t", "-", "f", "i", "x", "t", "u", "r", "e", "s", "-",
               "o", "p", "p", "o", "r", "t", "u", "n", "i", "t", "y">>
      [] detector = "MissingIsolationDetector" ->
             <<"m", "i", "s", "s", "i", "n", "g", "-", "i", "s", "o", "l", "a", "t",
               "i", "o", "n">>
      [] detector = "GradleBuildOptimizationDetector" ->
             <<"g", "r", "a", "d", "l", "e", "-", "i", "n", "c", "r", "e", "m", "e",
               "n", "t", "a", "l", "-", "c", "o", "m", "p", "i", "l", "a", "t", "i",
               "o", "n">>
      [] detector = "FileStructureAnalyzer" ->
             <<"f", "i", "l", "e", "-", "s", "t", "r", "u", "c", "t", "u", "r", "e">>

\* BuildMetrics.collect(projectRoot): return empty();
BuildMetrics_collect ==
    [testCompilationTime |-> 0, incrementalCompilationEnabled |-> FALSE,
     buildTimeHistory |-> <<>>]

MissingIsolationFeedback(hardcoded) ==
    EducationalFeedback(Some(<<"m", "i", "s", "s", "i", "n", "g", "-", "i", "s", "o", "l", "a",
                               "t", "i", "o", "n">>),
                        Some(<<"w", "a", "r", "n", "i", "n", "g">>), <<"T">>,
                        Some(<<[key |-> "hardcodedCount", val |-> Len(hardcoded)]>>),
                        <<"M">>, <<"R">>).value

\* MissingIsolationDetector.detect for test files without URLs and paths.
MissingIsolationDetector_detect(tree, content) ==
    LET found == findTestFilesStatic(tree)
    IN  IF found.raised THEN Raised
        ELSE IF found.value = <<>> THEN Returned(None)
        ELSE
          LET hardcoded == IF ReadableOf(found.value) = <<>> THEN <<>>
                           ELSE HardcodedPorts(content)
          IN  IF hardcoded = <<>> THEN Returned(None)
              ELSE Returned(Some(MissingIsolationFeedback(hardcoded)))

\* detector.detect(testJson, projectRoot, buildMetrics)
detect(detector, testJson, project, buildMetrics) ==
    CASE detector = "MockOveruseDetector" ->
             MockOveruseDetector_detect(project.tree, testJson.summary.total)
      [] detector = "TestFixturesOpportunityDetector" ->
             TestFixturesOpportunityDetector_detect(project.tree,
                                                    buildMetrics.testCompilationTime)
      [] detector = "MissingIsolationDetector" ->
             MissingIsolationDetector_detect(project.tree, project.content)
      [] detector = "GradleBuildOptimizationDetector" ->
             Returned(GradleBuildOptimizationDetector_detect(buildMetrics.buildTimeHistory))
      [] detector = "FileStructureAnalyzer" ->
             FileStructureAnalyzer_detect(project.tree, testJson.summary.total)

\* A test source that three detectors have something to say about, one that
\* none has, and a test class among the production sources.
BusyTestFile == Entry(TestJavaFile(<<"A">>), TRUE, TRUE, ThreeCalls, <<CallOf4>>)
QuietTestFile == Entry(TestJavaFile(<<"A">>), TRUE, TRUE, <<>>, <<CallOf3>>)
MisplacedTestFile ==
    SourceEntry(UnderRoot(SrcMain \o JavaDir \o <<"/", "B">> \o TestWord \o DotJava),
                TRUE, PackageP, FALSE)

PipelineTrees ==
    {Tree("open", <<>>), Tree("traverse", <<>>)}
      \cup {Tree("ok", entries) :
              entries \in {<<>>, <<QuietTestFile>>, <<BusyTestFile>>, <<MisplacedTestFile>>,
                           <<BusyTestFile, MisplacedTestFile>>}}

PipelineContents == {<<>>, <<<<"2", "0", "2", "4">>>>, <<<<"8", "0", "8", "0">>>>}

\* The outcome lists of the runs: up to MaxTests passed tests.
PipelineTestLists == {[i \in 1..n |-> SampleTestCase(i, Passed)] : n \in 0..MaxTests}

\* The loop has not begun: nothing has run, nothing is collected.
NoFeedback == [ran |-> <<>>, educational |-> <<>>, raised |-> FALSE]

PipelineInit ==
    /\ DetectorIdle
    /\ input \in {Some([testJson |-> [summary |-> calculateSummary(testList)],
                        buildMetrics |-> BuildMetrics_collect,
                        project |-> [tree |-> tree, content |-> content]]) :
                     testList \in PipelineTestLists, tree \in PipelineTrees,
                     content \in PipelineContents}
    /\ output = Some(NoFeedback)

\* The mutant of RunDetector in which the detector resets the summary of the
\* TestJson it was given.
RunDetectorResetting(detector) ==
    LET result == detect(detector, input[1].testJson, input[1].project, input[1].buildMetrics)
    IN  /\ ~output[1].raised
        /\ input' = Some([input[1] EXCEPT !.testJson.summary = TestSummary(0, 0, 0, 0)])
        /\ output' = Some([ran |-> Append(output[1].ran, detector),
                           educational |-> IF result.raised \/ result.value = None
                                           THEN output[1].educational
                                           ELSE Append(output[1].educational, result.value[1]),
                           raised |-> result.raised])
        /\ UNCHANGED notDetector

\* detector.detect(testJson, projectRoot, buildMetrics).ifPresent(educational::add):
\* the detector reads what it is given and the files under the project root;
\* what it throws ends the loop.
RunDetector(detector) ==
    LET result == detect(detector, input[1].testJson, input[1].project, input[1].buildMetrics)
    IN  /\ ~output[1].raised
        /\ output' = Some([ran |-> Append(output[1].ran, detector),
                           educational |-> IF result.raised \/ result.value = None
                                           THEN output[1].educational
                                           ELSE Append(output[1].educational, result.value[1]),
                           raised |-> result.raised])
        /\ UNCHANGED <<input, notDetector>>

\* for (PatternDetector detector : patternDetectors)
DetectNextInOrder ==
    /\ Len(output[1].ran) < Len(patternDetectors)
    /\ RunDetector(patternDetectors[Len(output[1].ran) + 1])

PipelineNext == DetectNextInOrder

SpecPipeline == PipelineInit /\ [][PipelineNext]_vars

\* The detectors run in an order of the scheduler's choice, each once.
DetectAny ==
    \E detector \in Range(patternDetectors) :
       /\ detector \notin Range(output[1].ran)
       /\ RunDetector(detector)

AnyOrderNext == DetectAny

SpecAnyOrder == PipelineInit /\ [][AnyOrderNext]_vars

(***************************************************************************)
(* Claims about the resolver.                                              *)
(***************************************************************************)
\* The two configuration values of the kind of class last resolved.
ExplicitValue == sysProps[IF lastKind = "test" THEN TestSysProp ELSE MainSysProp]
EnvironmentValue == envVars[IF lastKind = "test" THEN TestEnvVar ELSE MainEnvVar]

DefaultsOfKind == IF lastKind = "test" THEN DefaultTestDirs ELSE DefaultMainDirs

\* Absent, or nothing but whitespace.
IsBlankValue(v) == v = None \/ \A i \in 1..Len(v[1]) : v[1][i] = " "

\* Absent, or nothing but whitespace and commas: the value names no directory.
NamesNoDirectory(v) == v = None \/ \A i \in 1..Len(v[1]) : v[1][i] \in {" ", ","}

ElementsOf(v) == FilterNonEmpty(MapTrim(JavaSplit(v[1], ",")))

\* The first two parts of C10: a non-blank explicit value is the one used,
\* whatever the environment holds, and the environment value is used exactly
\* when the explicit value is absent or blank.
PrecedenceHolds ==
    /\ ~IsBlankValue(ExplicitValue) => resolved = ElementsOf(ExplicitValue)
    /\ (IsBlankValue(ExplicitValue) /\ ~IsBlankValue(EnvironmentValue))
          => resolved = ElementsOf(EnvironmentValue)
    /\ (IsBlankValue(ExplicitValue) /\ IsBlankValue(EnvironmentValue))
          => resolved = <<>>

\* C10 as stated: for both directory lists the explicit value is used whenever
\* it is present and non-blank, the environment value exactly when the explicit
\* one is absent or blank, and the built-in defaults apply only when neither
\* provider supplies a directory.
C10_Original ==
    lastKind # "none" =>
        /\ PrecedenceHolds
        /\ candidates = DefaultsOfKind
              => (NamesNoDirectory(ExplicitValue) /\ NamesNoDirectory(EnvironmentValue))

\* C10 as amended: the same precedence, and the built-in defaults apply exactly
\* when the value that precedence selects (the explicit one if non-blank, else
\* the environment one) names no directory, that is, is absent, blank or made
\* of commas and whitespace only; otherwise the selected value's directories
\* are the candidates.
C10_Precedence ==
    lastKind # "none" =>
        LET selected == IF IsBlankValue(ExplicitValue) THEN EnvironmentValue
                        ELSE ExplicitValue
        IN  /\ PrecedenceHolds
            /\ (candidates = DefaultsOfKind) <=> NamesNoDirectory(selected)
            /\ ~NamesNoDirectory(selected) => candidates = ElementsOf(selected)

\* A non-blank explicit value of commas hides an environment directory and the
\* defaults apply.
C10_Witness ==
    /\ lastKind = "test"
    /\ ExplicitValue = Some(<<",">>)
    /\ EnvironmentValue = Some(<<"a">>)
    /\ resolved = <<>>
    /\ candidates = DefaultTestDirs

\* The value precedence selects.
SelectedValue == IF IsBlankValue(ExplicitValue) THEN EnvironmentValue ELSE ExplicitValue

\* The positions that delimit the comma-separated pieces of s.
PieceBounds(s) == {0, Len(s) + 1} \cup {i \in 1..Len(s) : s[i] = ","}

\* The positions of the piece that begins after bound p which hold no whitespace.
PieceInk(s, p) ==
    LET q == CHOOSE b \in PieceBounds(s) : b > p /\ \A c \in PieceBounds(s) : c > p => b <= c
    IN  {i \in (p + 1)..(q - 1) : s[i] # " "}

\* The bounds after which a piece with something besides whitespace begins.
InkedPieces(s) == {p \in PieceBounds(s) \ {Len(s) + 1} : PieceInk(s, p) # {}}

\* The pieces of s in their order, each from its first to its last character
\* that is no whitespace, pieces of whitespace only left out.
ExpectedElements(s) ==
    [k \in 1..Cardinality(InkedPieces(s)) |->
        LET p == CHOOSE b \in InkedPieces(s) :
                    Cardinality({c \in InkedPieces(s) : c < b}) = k - 1
        IN  SubSeq(s, Least(PieceInk(s, p)), Greatest(PieceInk(s, p)))]

\* C11: the list resolved from a non-blank value is its comma-separated
\* elements in their order, trimmed, the empty ones dropped, so that no element
\* is empty or begins or ends with whitespace; an absent or blank value gives
\* the empty list.
C11_ElementsTrimmedInOrder ==
    lastKind # "none" =>
        /\ IsBlankValue(SelectedValue) => resolved = <<>>
        /\ ~IsBlankValue(SelectedValue) => resolved = ExpectedElements(SelectedValue[1])
        /\ \A i \in 1..Len(resolved) :
              /\ resolved[i] # <<>>
              /\ Head(resolved[i]) # " "
              /\ resolved[i][Len(resolved[i])] # " "

\* A value with a leading blank and a trailing comma has been resolved to its
\* one element.
C11_Witness ==
    /\ lastKind # "none"
    /\ SelectedValue = Some(<<" ", "a", ",">>)
    /\ resolved = << <<"a">> >>

(***************************************************************************)
(* Claims about the writer.                                                *)
(***************************************************************************)
\* What a reader of the output path sees.
OutputEntry == fs[OutputPath]

\* C3: at every instant during and after a write, a reader of the output path
\* sees no file, the complete previous document or the complete new document,
\* never a partially written one.
C3_NoPartialDocument ==
    OutputEntry.kind # "absent" =>
        /\ OutputEntry.kind = "file"
        /\ ParseDocument(OutputEntry.content).ok
        /\ wPc # "idle" => (OutputEntry = prevOut \/ OutputEntry.content = Serialize(wJson))

\* The temporary file holds part of the new document while the output path
\* still holds the previous one.
C3_Witness ==
    /\ wPc = "serialize"
    /\ wFlushed > 0
    /\ wFlushed < Len(Serialize(wJson))
    /\ prevOut.kind = "file"
    /\ OutputEntry = prevOut
    /\ ~ParseDocument(fs[TempPath].content).ok

\* The document a reader parses from the output file.
ReadBack == ParseDocument(OutputEntry.content)

ReadStatusCount(items, status) ==
    Cardinality({i \in 1..Len(items) : Member(items[i], "status").s = status})

\* C8: the document read back after a write has summary.total equal to the
\* number of entries of tests, passed / failed / skipped equal to the number of
\* entries with that status, total = passed + failed + skipped, and tests and
\* failures of the lengths that were handed to the writer.
C8_RoundTrip ==
    wPc = "returned" =>
        /\ ReadBack.ok
        /\ LET summary == Member(ReadBack, "summary")
               readTests == Member(ReadBack, "tests").items
               readFailures == Member(ReadBack, "failures").items
               total == Member(summary, "total").n
               passed == Member(summary, "passed").n
               failed == Member(summary, "failed").n
               skipped == Member(summary, "skipped").n
           IN  /\ total = Len(readTests)
               /\ passed = ReadStatusCount(readTests, Passed)
               /\ failed = ReadStatusCount(readTests, Failed)
               /\ skipped = ReadStatusCount(readTests, Skipped)
               /\ total = passed + failed + skipped
               /\ Len(readTests) = Len(wJson.tests)
               /\ Len(readFailures) = Len(wJson.failures)

\* A write of a failed and a skipped outcome and one failure has returned.
C8_Witness ==
    /\ wPc = "returned"
    /\ Len(wJson.tests) = 2
    /\ wJson.tests[1].status = Failed
    /\ wJson.tests[2].status = Skipped
    /\ Len(wJson.failures) = 1
    /\ OutputEntry.content = Serialize(wJson)

\* C9: after a write attempt has returned to its caller, normally or by
\* raising at any step, the temporary sibling of the output path does not exist.
C9_NoTempLeft ==
    wPc \in {"returned", "raised"} => fs[TempPath].kind = "absent"

(***************************************************************************)
(* Claims about the collector.                                             *)
(***************************************************************************)
\* No collector call is executing: every thread is between calls.
AllReturned == \A t \in Threads : tpc[t] \in {"idle", "started"}

\* The tests whose finish or skip call has returned.
ReportedTests == returned \cap TestIds

\* C1: once all the calls issued from the threads have returned, the collector
\* reports as many outcomes as tests were finished or skipped, in any
\* interleaving, and total = passed + failed + skipped.
C1_NoLostOutcome ==
    AllReturned =>
        /\ getTotalTests = Cardinality(ReportedTests)
        /\ getTotalTests = getPassedTests + getFailedTests + getSkippedTests

\* Every test and the container have been reported, outcomes of more than one
\* status among them.
C1_Witness ==
    /\ AllReturned
    /\ returned = AllIds
    /\ getTotalTests = NumTests
    /\ getFailedTests >= 1
    /\ getSkippedTests >= 1

SameTest(a, b) == a.name = b.name /\ a.file = b.file

FailedOutcomes == {i \in 1..Len(tests) : tests[i].status = Failed}

\* C7: once all finish calls have returned, failures and failed outcomes
\* correspond one to one: there are as many failures as failed outcomes, every
\* failed outcome has its failure (same identifier and file path), and every
\* failure belongs to a failed outcome.
C7_FailurePerFailedOutcome ==
    AllReturned =>
        /\ Len(failures) = getFailedTests
        /\ \A i \in FailedOutcomes :
              Cardinality({j \in 1..Len(failures) : SameTest(failures[j], tests[i])})
                 = Cardinality({k \in FailedOutcomes : SameTest(tests[k], tests[i])})
        /\ \A j \in 1..Len(failures) :
              \E i \in FailedOutcomes : SameTest(failures[j], tests[i])

\* The threads whose finish call appends its TestCase in this step.
Appending == {t \in Threads : tpc[t] = "add" /\ tpc'[t] # "add"}

\* C13: every recorded outcome has a non-negative duration, whatever the
\* interleaving, the clock never going back: a finish records the clock minus
\* the start time stored for its identifier, or minus the clock it read itself
\* when none is stored, and a skip records 0.
C13_DurationNonNegative ==
    /\ [](\A i \in 1..Len(tests) : tests[i].duration >= 0)
    /\ [][Len(tests') > Len(tests) =>
            LET new == tests'[Len(tests')]
            IN  /\ tests' = Append(tests, new)
                /\ Appending = {} => (new.status = Skipped /\ new.duration = 0)
                /\ \A t \in Appending :
                      LET id == tcur[t].id
                      IN  IF id \in DOMAIN testStartTimes
                          THEN new.duration = now - testStartTimes[id]
                          ELSE /\ new.duration = now - tcur[t].startTime
                               /\ tcur[t].startTime \in 0..now]_vars

\* A test that took time, a skipped test, and nothing in flight.
C13_Witness ==
    /\ AllReturned
    /\ \E i \in 1..Len(tests) : tests[i].status # Skipped /\ tests[i].duration >= 1
    /\ \E i \in 1..Len(tests) : tests[i].status = Skipped /\ tests[i].duration = 0

IsPrefix(a, b) == Len(a) <= Len(b) /\ SubSeq(b, 1, Len(a)) = a

\* The list a snapshot was taken of, as it is now.
ListNow(of) == IF of = "tests" THEN tests ELSE failures

\* A record all of whose fields were set by its constructor.
FullyConstructed(of, item) ==
    IF of = "tests"
    THEN /\ DOMAIN item = {"name", "file", "status", "duration", "displayName"}
         /\ item.status \in Statuses
         /\ item.duration \in Nat
    ELSE DOMAIN item = {"name", "file", "message", "stack"}

\* C20: the outcome and failure lists are append-only under concurrency: a
\* snapshot of either list taken while other threads record is a prefix of
\* the list ever after, hence of every later snapshot of it, and holds only
\* fully constructed records.
C20_SnapshotsArePrefixes ==
    /\ [](output # None =>
            /\ IsPrefix(output[1].items, ListNow(output[1].of))
            /\ \A i \in 1..Len(output[1].items) :
                  FullyConstructed(output[1].of, output[1].items[i]))
    /\ [][/\ IsPrefix(tests, tests')
          /\ IsPrefix(failures, failures')
          /\ (output # None /\ output' # None /\ output'[1].of = output[1].of)
                => IsPrefix(output[1].items, output'[1].items)]_vars

\* A snapshot of one outcome, taken before a second outcome was appended,
\* while a thread is inside a finish call.
C20_Witness ==
    /\ output # None
    /\ output[1].of = "tests"
    /\ Len(output[1].items) = 1
    /\ Len(tests) = 2
    /\ \E t \in Threads : tpc[t] = "fail"

(***************************************************************************)
(* Claims about classNameToFilePath.                                       *)
(***************************************************************************)
\* The candidate directories of the class the call was made for: the resolved
\* list of its kind, or the built-in defaults when that list is empty.
CandidatesOfCall ==
    LET isTest == input[1] = ClassATest
        list == IF isTest THEN resolveTestSourceDirs ELSE resolveMainSourceDirs
    IN  IF list # <<>> THEN list
        ELSE IF isTest THEN DefaultTestDirs ELSE DefaultMainDirs

InfoOrWarning(str) == str = <<"i", "n", "f", "o">> \/ str = <<"w", "a", "r", "n", "i", "n", "g">>

\* The feedback objects a reader finds in the output file.
PersistedFeedback ==
    LET items == Member(ParseDocument(fs[OutputPath].content), "educational").items
    IN  {items[i] : i \in 1..Len(items)}

\* C14: the constructor fails exactly when the category is null or empty, the
\* severity is null or neither info nor warning, or the evidence is null, and
\* otherwise builds the feedback of its arguments; every feedback in a
\* persisted document has a non-empty category, such a severity and evidence.
C14_FeedbackValidated ==
    /\ output # None =>
          LET a == input[1]
              rejected == \/ a.category = None \/ a.category = Some(<<>>)
                          \/ a.severity = None \/ ~InfoOrWarning(a.severity[1])
                          \/ a.evidence = None
          IN  /\ output[1].raised <=> rejected
              /\ ~rejected =>
                    /\ output[1].value.category = a.category[1]
                    /\ output[1].value.severity = a.severity[1]
                    /\ output[1].value.evidence = a.evidence[1]
    /\ fs[OutputPath].kind = "file" =>
          /\ ParseDocument(fs[OutputPath].content).ok
          /\ \A e \in PersistedFeedback :
                /\ Member(e, "category").s # <<>>
                /\ InfoOrWarning(Member(e, "severity").s)
                /\ HasMember(e, "evidence")
                /\ Member(e, "evidence").kind = "obj"

\* A feedback with empty evidence has been constructed and persisted.
C14_Witness ==
    /\ output # None
    /\ ~output[1].raised
    /\ output[1].value.evidence = <<>>
    /\ output[1].value.severity = <<"w", "a", "r", "n", "i", "n", "g">>
    /\ fs[OutputPath].kind = "file"
    /\ PersistedFeedback # {}

(***************************************************************************)
(* Claims about the detectors.                                             *)
(***************************************************************************)
\* The call returned a feedback.
FeedbackProduced == output # None /\ ~output[1].raised /\ output[1].value # None

\* max|t - mean| / mean * 100 > 20 over the history, mean being sum / size
\* and positive: 100 * max|size * t - sum| > 20 * sum.
VarianceExceeds20(history) ==
    LET size == Len(history)
        sum == SumOf(history)
    IN  /\ sum > 0
        /\ \E i \in 1..size : 100 * AbsOf(size * history[i] - sum) > 20 * sum

\* C15: the build-variance detector produces feedback if and only if the
\* history has at least 3 entries and its variance percentage is strictly
\* greater than 20.
C15_VarianceTrigger ==
    output # None =>
        (FeedbackProduced <=> (Len(input[1]) >= 3 /\ VarianceExceeds20(input[1])))

\* The mock declarations the detector counts: those of the readable files
\* among the test files found.
CountedMocks ==
    LET found == findTestFiles(input[1].tree).value
    IN  SumOf([i \in 1..Len(found) |-> IF found[i].readable THEN Len(found[i].mocks) ELSE 0])

\* Some counted declaration mocks a type flagged as a value object.
ValueObjectMocked ==
    LET found == findTestFiles(input[1].tree).value
    IN  \E i \in 1..Len(found) :
           /\ found[i].readable
           /\ \E j \in 1..Len(found[i].mocks) : isLikelyValueObject(found[i].mocks[j].type)

\* C16: the mock-overuse detector produces feedback if and only if
\* testCount > 0 and (mockCount / testCount > 2.0 or some mocked type is
\* flagged as a value object); in particular none with testCount = 0, and
\* none at a ratio of exactly 2.0 without a value-object mock.
C16_MockOveruseTrigger ==
    (output # None /\ ~output[1].raised) =>
        (FeedbackProduced <=>
            /\ input[1].total > 0
            /\ (CountedMocks > 2 * input[1].total \/ ValueObjectMocked))

\* Feedback for the ratio alone, and none at a ratio of exactly 2.0.
C16_Witness ==
    /\ FeedbackProduced
    /\ input[1].total = 1
    /\ CountedMocks = 3
    /\ ~ValueObjectMocked

\* The depths averaged by the test-fixtures detector: one per readable file
\* among the test files found.
FileDepths ==
    LET read == ReadableOf(findTestFilesStatic(input[1].tree).value)
    IN  [i \in 1..Len(read) |-> analyzeConstructorComplexity(read[i].calls)]

\* avgDepth > 3.0
AvgDepthExceeds3 == FileDepths # <<>> /\ SumOf(FileDepths) > 3 * Len(FileDepths)

\* C17: the test-fixtures detector produces feedback exactly when
\* compilationMs > 2000 or avgDepth > 3.0, avgDepth being the mean over the
\* test files of each file's maximum constructor-argument count.
C17_FixturesTrigger ==
    (output # None /\ ~output[1].raised) =>
        (FeedbackProduced <=> (input[1].compilationMs > 2000 \/ AvgDepthExceeds3))

\* The test-named source files of the walked tree that lie under a
\* production directory and outside the build output.
TestsInProduction ==
    {i \in 1..Len(input[1].tree.entries) :
        LET e == input[1].tree.entries[i]
        IN  /\ e.regular
            /\ (EndsWith(e.path, DotJava) \/ EndsWith(e.path, DotKt))
            /\ Contains(e.path, <<"/", "s", "r", "c", "/", "m", "a", "i", "n", "/">>)
            /\ ~Contains(e.path, <<"/", "b", "u", "i", "l", "d", "/">>)
            /\ ~Contains(e.path, <<"/", "t", "a", "r", "g", "e", "t", "/">>)
            /\ (Contains(FileNameOf(e.path), TestWord) \/ Contains(FileNameOf(e.path), SpecWord))}

\* The testsInMain list of the feedback produced.
ReportedTestsInMain == output[1].value[1].evidence[1].val

\* C18: whenever test-named source files lie under a production directory,
\* the analyzer produces feedback whose testsInMain list holds exactly one
\* entry for each of them, and no entry for a clean structure, whatever the
\* rest of the input is, a snapshot with zero recorded tests included.
C18_TestsInMainReported ==
    (output # None /\ input[1].tree.walk = "ok") =>
        /\ TestsInProduction # {} => FeedbackProduced
        /\ FeedbackProduced =>
              /\ Len(ReportedTestsInMain) = Cardinality(TestsInProduction)
              /\ \A i \in TestsInProduction :
                    \E j \in 1..Len(ReportedTestsInMain) :
                       ReportedTestsInMain[j] = Relativize(input[1].tree.entries[i].path)

\* C19: findTestFiles never raises: whenever walking the project tree fails,
\* when the root is opened or later during the traversal, the call returns
\* an empty list.
C19_FindNeverRaises ==
    output # None =>
        /\ ~output[1].raised
        /\ input[1].walk # "ok" => output[1].value = <<>>

(***************************************************************************)
(* Claims about the listener.                                              *)
(***************************************************************************)
\* C2: when the listener is enabled, whatever is thrown inside a lifecycle
\* callback stays inside it: every callback returns normally to the engine.
C2_CallbacksReturn == enabled => lastOutcome = "returned"

RunFinished == lastCall = "testPlanExecutionFinished"

\* The documents that hold what the collector of the run has recorded.
RunDocuments ==
    {TestJson(now, getTotalDuration, tests, failures, educational) :
        educational \in FeedbackLists}

Persisted == \E json \in RunDocuments : fs[OutputPath] = File(Serialize(json))

\* C4 as stated: once the run-finish callback of an enabled listener has been
\* delivered after its run-start, the run is persisted.
C4_Original == (enabled /\ collector = ACollector /\ RunFinished) => Persisted

\* C4: nothing under the project root is written before the run-finish
\* callback of an enabled listener whose run has started; after that callback
\* the output path holds the document of the run exactly when no detector threw
\* and the writer returned, and then it is the one document the writer built.
C4_WrittenAtRunFinish ==
    /\ [][fs' # fs => (enabled /\ collector = ACollector /\ lastCall' = "testPlanExecutionFinished")]_vars
    /\ [](~RunFinished => wPc = "idle")
    /\ []((RunFinished /\ wPc = "returned") =>
             (wJson \in RunDocuments /\ fs[OutputPath] = File(Serialize(wJson))))
    /\ []((RunFinished /\ wPc # "returned") => ~Persisted)

\* A run with a failed and a skipped test has been persisted over the document
\* of an earlier run.
C4_Witness ==
    /\ RunFinished
    /\ wPc = "returned"
    /\ Persisted
    /\ prevOut = File(Serialize(PrevJson))
    /\ getFailedTests = 1
    /\ getSkippedTests = 1

\* C5: a disabled listener never has a collector, records nothing, throws
\* nothing, calls no writer, and no callback changes anything under the
\* project root.
C5_DisabledDoesNothing ==
    /\ [](~enabled =>
             /\ collector = NullCollector
             /\ tests = <<>> /\ failures = <<>>
             /\ testStartTimes = NoStartTimes /\ testPlanStartTime = 0
             /\ wPc = "idle"
             /\ lastOutcome = "returned")
    /\ [][~enabled => fs' = fs]_vars

\* A disabled listener has been through a whole run: every identifier was
\* reported to it and the run has ended.
C5_Witness ==
    /\ ~enabled
    /\ picked = AllIds
    /\ RunFinished

\* "true", in any mixture of cases.
IsTrueIgnoringCase(v) ==
    /\ v # None
    /\ Len(v[1]) = 4
    /\ v[1][1] \in {"t", "T"} /\ v[1][2] \in {"r", "R"}
    /\ v[1][3] \in {"u", "U"} /\ v[1][4] \in {"e", "E"}

\* C6: the enabled flag is what the enable signal and the marker directory
\* were at construction, and no step changes it.
C6_EnabledFixedAtConstruction ==
    /\ [](enabled = (IsTrueIgnoringCase(ctorEnv) \/ ctorMarker))
    /\ [][enabled' = enabled]_vars

\* A listener constructed disabled stays so through a run although the signal
\* has since been set and the marker directory created.
C6_Witness ==
    /\ ~enabled
    /\ envEnabled = Some(<<"t", "r", "u", "e">>)
    /\ FilesExists(fs, MarkerDir)
    /\ RunFinished

(***************************************************************************)
(* Claims about the run-finish callback among the worker threads.          *)
(***************************************************************************)
\* The run-finish callback has written its document and returned.
RunWritten == tpc[Main] = "done" /\ wPc = "returned"

\* C21: the document the run-finish callback persists is the snapshot the
\* detectors saw: its outcome list, failure list and summary are the ones
\* handed to the detectors, whatever the worker threads record meanwhile.
C21_PersistedIsSnapshot ==
    RunWritten =>
        /\ fs[OutputPath] = File(Serialize(wJson))
        /\ wJson.tests = input[1].tests
        /\ wJson.failures = input[1].failures
        /\ wJson.summary = input[1].summary

(***************************************************************************)
(* Claims about the order in which a finish call appends.                  *)
(***************************************************************************)
\* The threads that have appended the TestCase of a failed test and not yet
\* its TestFailure.
BetweenAppends == {t \in Threads : tpc[t] = "fail"}

\* C30: at every instant, in any interleaving of concurrent finish calls,
\* there are no more recorded failures than recorded outcomes with status
\* failed, and every recorded failure has its failed outcome in the list
\* already: a call appends its outcome before its failure.
C30_FailuresAtMostFailedOutcomes ==
    /\ Len(failures) <= Cardinality(FailedOutcomes)
    /\ \A j \in 1..Len(failures) :
          Cardinality({k \in 1..Len(failures) : SameTest(failures[k], failures[j])})
             <= Cardinality({i \in FailedOutcomes : SameTest(tests[i], failures[j])})

\* Two finish calls of failed tests run at once: one has appended both its
\* records, the other its outcome only.
C30_Witness ==
    /\ BetweenAppends # {}
    /\ Len(failures) = 1
    /\ Cardinality(FailedOutcomes) = 2

(***************************************************************************)
(* Claims about successive runs on one listener.                           *)
(***************************************************************************)
\* The run-start callback is delivered to an enabled listener in this step.
RunStartDelivered ==
    /\ enabled
    /\ lastCall' = "testPlanExecutionStarted"
    /\ <<lastCall, lastOutcome, collector, colVars>>' # <<lastCall, lastOutcome, collector, colVars>>

\* C22: runs are isolated: once a run-start has been delivered, the collector
\* of the listener holds no outcome, failure or start time of an earlier run,
\* so that the document of the run holds only what was recorded since.
C22_RunStartIsolates ==
    [][RunStartDelivered =>
          /\ tests' = <<>>
          /\ failures' = <<>>
          /\ testStartTimes' = NoStartTimes]_vars

\* The run-start callback has been delivered to an enabled listener and did
\* not return: the collector was not created.
RunStartFailed ==
    /\ enabled
    /\ lastCall = "testPlanExecutionStarted"
    /\ lastOutcome = "thrown"

EventCallbacks ==
    {"executionStarted", "executionFinished", "executionSkipped", "testPlanExecutionFinished"}

\* C29: for an enabled listener, a test-start, test-finish, test-skip or
\* run-finish callback delivered before any run-start, or after a run-start
\* that failed to create the collector, changes no state and writes no file.
C29_NoRunNoEffect ==
    [][(/\ enabled
        /\ collector = NullCollector \/ RunStartFailed
        /\ lastCall' \in EventCallbacks)
          => UNCHANGED <<collector, colVars, fs>>]_vars

(***************************************************************************)
(* Claims about a failure of the detectors.                                *)
(***************************************************************************)
\* The run-finish callback of an enabled listener with a collector is
\* delivered in this step, and BuildMetrics.collect or a detector throws an
\* exception.
DetectorsRaise ==
    /\ ~EventReturns
    /\ \E educational \in FeedbackLists : testPlanExecutionFinished("exception", educational)

\* C28: when the collection of the build metrics or a detector raises an
\* exception during run-finish, the write is not reached: the writer is not
\* called, no file under the project root is created or modified (an earlier
\* document stays as it is), and the callback returns normally.
C28_DetectorFailureSkipsWrite ==
    [][DetectorsRaise =>
          /\ fs' = fs
          /\ wPc' = "idle"
          /\ lastOutcome' = "returned"]_vars

\* A run with recorded outcomes has ended with a detector's exception, and the
\* document of an earlier run is still what the output path holds.
C28_Witness ==
    /\ enabled
    /\ collector = ACollector
    /\ RunFinished
    /\ wPc = "idle"
    /\ lastOutcome = "returned"
    /\ tests # <<>>
    /\ fs[OutputPath] = File(Serialize(PrevJson))
    /\ fs[TempFileOf(OutputPath)] = Absent

(***************************************************************************)
(* Claims about the counted constructor arguments.                         *)
(***************************************************************************)
\* The arguments of an invocation that are separated by commas outside every
\* nested pair of parentheses: the text between its opening and its closing
\* parenthesis, counted at depth 0.
TopLevelArguments(invocation) ==
    countParameters(Trim(SubSeq(invocation, 2, Len(invocation) - 1)))

\* C25: the number counted for a constructor invocation is the number of its
\* top-level comma-separated arguments, nested commas and parentheses not
\* affecting it (new S(new A(x, y), b, c, d) counts 4), and the depth of a
\* file is the greatest number over its invocations.
C25_CountsTopLevelArguments ==
    output # None =>
        output[1] = MaxOf({TopLevelArguments(input[1][i]) : i \in 1..Len(input[1])} \cup {0})

(***************************************************************************)
(* Claims about the hardcoded ports.                                       *)
(***************************************************************************)
\* A token of four digits that reads as a year of the last or this century.
YearLike(token) == Len(token) = 4 /\ parseInt(token) \in 1900..2099

\* C26: a bare numeric token is reported as a hardcoded port only if its value
\* is in the valid port range and it is not a four-digit year: no year-like
\* token such as 1999 or 2024 is ever counted.
C26_NoYearCountedAsPort ==
    output # None =>
        \A i \in 1..Len(output[1]) :
            /\ output[1][i].value \in 1024..65535
            /\ ~\E k \in 1..Len(input[1]) :
                   YearLike(input[1][k]) /\ parseInt(input[1][k]) = output[1][i].value

(***************************************************************************)
(* Claims about concurrent writes.                                         *)
(***************************************************************************)
\* Both calls of write have ended.
BothEnded == \A w \in Writers : tpc[w] \in {"returned", "raised"}

\* C27: when two calls of write for the same output path run at the same
\* time, then after both have returned the output path holds the complete
\* document of one of the two and no temporary file is left.
C27_ConcurrentWritesKeepOneDocument ==
    BothEnded =>
        /\ \E w \in Writers : fs[OutputPath] = File(Serialize(tcur[w].json))
        /\ fs[TempFileOf(OutputPath)] = Absent

(***************************************************************************)
(* Claims about the loop over the detectors.                               *)
(***************************************************************************)
\* The categories the registered detectors declare, in registration order.
DeclaredCategories == [i \in 1..Len(patternDetectors) |-> getCategory(patternDetectors[i])]

RECURSIVE IsSubsequence(_, _)
IsSubsequence(short, long) ==
    IF short = <<>> THEN TRUE
    ELSE IF long = <<>> THEN FALSE
    ELSE IF Head(short) = Head(long) THEN IsSubsequence(Tail(short), Tail(long))
    ELSE IsSubsequence(short, Tail(long))

CategoriesOf(educational) == [i \in 1..Len(educational) |-> educational[i].category]

\* C23: the feedback list of the document holds at most one Feedback for each
\* detector, so at most five entries of pairwise distinct categories; each
\* entry carries the category its detector declares, and the entries stand in
\* the order in which the detectors are registered.
C23_OneFeedbackPerDetector ==
    /\ [](LET educational == output[1].educational
          IN  /\ Len(educational) <= 5
              /\ \A i, j \in 1..Len(educational) :
                    i # j => educational[i].category # educational[j].category
              /\ IsSubsequence(CategoriesOf(educational), DeclaredCategories))
    /\ [][/\ Len(output'[1].educational) <= Len(output[1].educational) + 1
          /\ Len(output'[1].educational) > Len(output[1].educational) =>
                output'[1].educational[Len(output'[1].educational)].category
                   = getCategory(output'[1].ran[Len(output'[1].ran)])]_vars

\* The loop has run all five detectors, and every detector that can find
\* something with the build metrics the listener collects has done so.
C23_Witness ==
    /\ Len(output[1].ran) = Len(patternDetectors)
    /\ ~output[1].raised
    /\ Len(output[1].educational) = 4

\* What the loop in registration order collects from what it hands to the
\* detectors: the feedback of each detector that has one, or that it raised.
RECURSIVE InOrder(_, _, _, _)
InOrder(detectors, testJson, project, buildMetrics) ==
    IF detectors = <<>> THEN {}
    ELSE LET result == detect(Head(detectors), testJson, project, buildMetrics)
         IN  IF result.raised THEN {"raised"}
             ELSE (IF result.value = None THEN {} ELSE {result.value[1]})
                     \cup InOrder(Tail(detectors), testJson, project, buildMetrics)

\* Every detector has run, or one has raised.
LoopEnded == output[1].raised \/ Len(output[1].ran) = Len(patternDetectors)

====
